---- MODULE Spec2Model ----
(***************************************************************************)
(* lasc: a foot-operated MIDI program-change selector (STM8S, SDCC).       *)
(*                                                                         *)
(* The module models src/lasc.c: the 1 ms tick interrupt, the debouncing   *)
(* scan loop scanFS, the mode controller (manageConfig, configMIDI,        *)
(* configDisplay, main, mode2), the EEPROM configuration and the MIDI      *)
(* encoder sendMidiPC.                                                     *)
(*                                                                         *)
(* Granularity.  One ScanIter step is one pass of the while(1) body of     *)
(* scanFS (timeout test, intensity refresh, the for loop over the three    *)
(* switches).  One Handle step is the code the caller runs between the     *)
(* return of one scanFS call and the first statement of the next call.     *)
(* One Tick step is a burst of timer interrupts; the switch lines change   *)
(* only together with a tick.  While scanFS runs, a pass of the loop is    *)
(* far shorter than the 1 ms tick period, so a burst longer than one tick  *)
(* is taken only when every pass inside the burst would leave the state    *)
(* as it is (Quiet): such a burst stands for the same number of single     *)
(* ticks each followed by a pass without effect.                           *)
(*                                                                         *)
(* Spec is the whole program from power-up.  SpecScroll, SpecStep and      *)
(* SpecConfig run the same code of the mode controller with a scanFS call  *)
(* taken by the value it returns (ScanResult).                             *)
(***************************************************************************)
EXTENDS Integers, Sequences, FiniteSets

(***************************************************************************)
(* Program constants (lasc.h is src/unnamed/part_001).                     *)
(***************************************************************************)
UP == 0
DOWN == 1
MODE == 2
MAXFS == 3
NOPRESS == 255

FS_UP == 0
FS_DOWN == 1
FS_SENT == 2

DEBOUNCE_THRESHOLD_MS == 50
FLASH_PERIOD_MS == 150
START_FLASH == 1
STOP_FLASH == 0

AUTOREPEAT_OFF == 0
AUTOREPEAT_ON == 1
AUTOREPEAT_FAST_AFTER == 1000
AUTOREPEAT_AFTER_MS == 300
AUTOREPEAT_FAST_MS == 60

BOOT_TIMEOUT_MS == 100
CONFIG_TIMEOUT_MS == 3000

MIDI_PC == 192
MIDI_CC == 176

CHANNELOFFSET == 0
RANGEOFFSET == 1
LASTPCMSB == 2
LASTPCLSB == 3
DISPLAYOFFSET == 4

MAXRANGE == 4
MAXRANGE_0 == 127
MAXRANGE_1 == 199
MAXRANGE_2 == 299
MAXRANGE_3 == 799
MAXRANGE_4 == 998

MIN_DISPLAY_INTENSITY == 0
MAX_DISPLAY_INTENSITY == 255

\* static uint16_t maxPatch[] = {MAXRANGE_0, ..., MAXRANGE_4}, indexed from 0
maxPatch == [r \in 0..MAXRANGE |->
               CASE r = 0 -> MAXRANGE_0
                 [] r = 1 -> MAXRANGE_1
                 [] r = 2 -> MAXRANGE_2
                 [] r = 3 -> MAXRANGE_3
                 [] OTHER -> MAXRANGE_4]

(***************************************************************************)
(* Bounds of the model.                                                    *)
(***************************************************************************)
\* Tick steps in one behaviour of the whole program.
MaxTicks == 7
\* Changes of a switch line in one behaviour.
MaxToggles == 4
\* Ticks that may fire while the caller runs between two scanFS calls.
MaxGap == 2
\* UP/DOWN adjustments in one stay in scroll mode (event-driven runs).
MaxAdjust == 3
\* Tick steps in one behaviour of a config mode on its own.
MaxIdleTicks == 5
\* Bursts of ticks in a behaviour of SpecRepeat.
MaxRepeatTicks == 9
\* Changes of a switch line in a behaviour of SpecRepeat.
MaxRepeatToggles == 2

(***************************************************************************)
(* Fixed-width unsigned arithmetic.  uint8_t and uint16_t are integers     *)
(* reduced modulo 2^8 and 2^16.  A uint32_t is the pair <<high half, low   *)
(* half>> of its 16-bit halves.                                            *)
(***************************************************************************)
W8 == 2^8
W16 == 2^16

U8(n) == n % W8
U16(n) == n % W16

\* the uint32_t of a number below 2^16
U32(n) == <<0, n % W16>>

\* a + d on uint32_t, for 0 <= d < 2^16
Add32(a, d) == <<(a[1] + ((a[2] + d) \div W16)) % W16, (a[2] + d) % W16>>

\* A subtraction of the two halves without the borrow.
Sub32NoBorrow(a, b) == <<(a[1] - b[1]) % W16, (a[2] - b[2]) % W16>>

\* a - b on uint32_t (wraps)
Sub32(a, b) ==
    LET borrow == IF a[2] < b[2] THEN 1 ELSE 0
    IN  <<(a[1] - b[1] - borrow) % W16, (a[2] - b[2]) % W16>>

\* A comparison that is off by one.
GT32Late(a, k) == a[1] > 0 \/ a[2] > k + 1

\* a > k, for a uint32_t a and a uint16_t k (the usual arithmetic conversions
\* widen k to 32 bits)
GT32(a, k) == a[1] > 0 \/ a[2] > k

\* The four bytes of a uint32_t, least significant first, and back.
Bytes32(a) == <<a[2] % W8, a[2] \div W8, a[1] % W8, a[1] \div W8>>
FromBytes(b) == <<b[4] * W8 + b[3], b[2] * W8 + b[1]>>

\* A uint32_t is read one byte at a time, the bytes in S after the interrupt
\* that takes it from old to new and the others before.
ReadSplit(old, new, S) ==
    FromBytes([i \in 1..4 |-> IF i \in S THEN Bytes32(new)[i]
                                         ELSE Bytes32(old)[i]])

\* What a read of the counter can return besides old and old + 1 when the
\* tick interrupt comes between its bytes, read in ascending or in descending
\* order: the main context reads now with interrupts enabled.
TornReads(old) ==
    {ReadSplit(old, Add32(old, 1), S) :
        S \in {j..4 : j \in 1..5} \cup {1..j : j \in 0..4}}
    \ {old, Add32(old, 1)}

(***************************************************************************)
(* State.                                                                  *)
(***************************************************************************)
VARIABLES
    \* build-time configuration (Makefile VARIANT), fixed for a behaviour
    build,              \* [HAS_MODE_FS, DONTSENDBANK, RESTORELASTPC : BOOLEAN]
    sendMIDIBank,       \* static uint8_t sendMIDIBank
    \* the hardware, fixed for a behaviour
    stuck,              \* EEPROM offsets whose worn-out cell keeps its byte
    \* written by the tick interrupt
    now,                \* __IO uint32_t now
    flashTicks,         \* __IO uint16_t flashTicks
    doFlash,            \* __IO uint8_t doFlash
    displayIntensity,   \* __IO uint8_t displayIntensity
    \* scanFS: the static switch array and the locals of the running call
    fsArr,              \* fsArr[i] = [state, timeDown, firstDown]
    autoRepeat,         \* parameter autoRepeat
    timeoutMs,          \* parameter timeoutMs
    startScan,          \* local startScan
    autoRepeatPeriod,   \* local autoRepeatPeriod
    scanning,           \* TRUE while a scanFS call is running
    sampled,            \* a pass of the loop has run since the last tick
    nowRead,            \* what the timeout test of the next pass reads of now
    ret,                \* value returned by the last scanFS call
    \* the switch input port: the physical switches that are closed
    closed,
    \* mode controller
    pc,                 \* "reset", "boot", "cfgMIDI", "cfgDisplay", "main", "mode2"
    midiChannel,        \* static uint8_t midiChannel
    midiPatchNo,        \* static uint16_t midiPatchNo
    range,              \* static uint8_t range
    showZeroBased,      \* static uint8_t showZeroBased
    newPatchNo,         \* local newPatchNo of mode2
    \* peripherals
    eeprom,             \* data EEPROM, bytes at offsets 0..4
    locked,             \* data EEPROM write protection is on
    wrote,              \* writeEepromByte calls of the last Handle step, in
                        \* order: [off, val, open, ok]
    uart,               \* bytes handed to UART1 by the last Handle step, in order
    display,            \* what the display driver was last asked to show
    intensityOut,       \* intensity last issued to the display driver
    \* counters that bound a behaviour
    nTicks, nToggles, gap, nAdjust,
    \* history, read only by the properties
    clock,              \* ms since power-up
    closedAt,           \* closedAt[r]: clock when the line of role r last closed
    evIn,               \* evIn[r]: events returned for r during its current closure
    offOnly,            \* offOnly[r]: only AUTOREPEAT_OFF calls ran in that closure
    shortPress,         \* roles that got an event in a closure ended before 50 ms
    lastScan,           \* [ret, seen, ar] of the last scanFS return
    scanFrom,           \* clock when the last scanFS call began
    last                \* [pc, ev, patch, work, chan, rng, flag, store] before
                        \* the last Handle, and boots: the power cycles so far

buildVars == <<build, sendMIDIBank, stuck>>
isrVars   == <<now, flashTicks, doFlash, displayIntensity>>
callVars  == <<autoRepeat, timeoutMs, startScan, autoRepeatPeriod>>
scanVars  == <<fsArr, callVars, scanning, sampled, nowRead, ret>>
cfgVars   == <<midiChannel, range, showZeroBased>>
ctlVars   == <<pc, cfgVars, midiPatchNo, newPatchNo>>
ioVars    == <<eeprom, locked, wrote, uart, display, intensityOut>>
cntVars   == <<nTicks, nToggles, gap, nAdjust>>
histVars  == <<clock, closedAt, evIn, offOnly, shortPress, lastScan, scanFrom,
              last>>
vars == <<buildVars, isrVars, scanVars, closed, ctlVars, ioVars, cntVars, histVars>>

Roles == {UP, DOWN, MODE}

\* The physical switches of a build: the two-switch build has no MODE switch.
Switches(b) == IF b.HAS_MODE_FS THEN {UP, DOWN, MODE} ELSE {UP, DOWN}

(***************************************************************************)
(* TIM2 update interrupt handler.                                          *)
(***************************************************************************)
\* A handler that counts two ticks when it toggles the intensity.
IRQHandlerSkips(s, f) ==
    IF f = 0
    THEN [s EXCEPT !.now = Add32(s.now, 1)]
    ELSE IF s.flashTicks = 0
         THEN [now |-> Add32(s.now, 2),
               flashTicks |-> FLASH_PERIOD_MS,
               displayIntensity |->
                   IF s.displayIntensity = MIN_DISPLAY_INTENSITY
                   THEN MAX_DISPLAY_INTENSITY ELSE MIN_DISPLAY_INTENSITY]
         ELSE [s EXCEPT !.now = Add32(s.now, 1),
                        !.flashTicks = U16(s.flashTicks - 1)]

\* A handler that toggles the intensity whether or not doFlash is set.
IRQHandlerFlashes(s, f) ==
    IF s.flashTicks = 0
    THEN [now |-> Add32(s.now, 1),
          flashTicks |-> FLASH_PERIOD_MS,
          displayIntensity |->
              IF s.displayIntensity = MIN_DISPLAY_INTENSITY
              THEN MAX_DISPLAY_INTENSITY ELSE MIN_DISPLAY_INTENSITY]
    ELSE [s EXCEPT !.now = Add32(s.now, 1),
                   !.flashTicks = U16(s.flashTicks - 1)]

\* One run of the handler on s = [now, flashTicks, displayIntensity]; f is doFlash.
IRQHandler(s, f) ==
    IF f = 0
    THEN [s EXCEPT !.now = Add32(s.now, 1)]
    ELSE IF s.flashTicks = 0
         THEN [now |-> Add32(s.now, 1),
               flashTicks |-> FLASH_PERIOD_MS,
               displayIntensity |->
                   IF s.displayIntensity = MIN_DISPLAY_INTENSITY
                   THEN MAX_DISPLAY_INTENSITY ELSE MIN_DISPLAY_INTENSITY]
         ELSE [s EXCEPT !.now = Add32(s.now, 1),
                        !.flashTicks = U16(s.flashTicks - 1)]

\* n consecutive runs of the handler, by halves.  The test on m.now is never
\* true for 0 < n < 2^32; it makes TLC evaluate m before the second half.
RECURSIVE IrqN(_, _, _)
IrqN(s, f, n) ==
    IF n = 0 THEN s
    ELSE IF n = 1 THEN IRQHandler(s, f)
    ELSE LET h == n \div 2
             m == IrqN(s, f, h)
         IN  IF m.now = s.now THEN m ELSE IrqN(m, f, n - h)

(***************************************************************************)
(* scanFS.                                                                 *)
(***************************************************************************)
\* (GPIO_ReadInputData(FS_PORT) & fsArr[i].pin) == 0x00, for the port on which
\* the switches in ls are closed (a closed switch pulls its pin low).
\* Without HAS_MODE_FS the MODE pin mask is PATCH_UP_FS_PIN | PATCH_DOWN_FS_PIN.
LineClosed(i, ls, b) ==
    IF i = MODE /\ ~b.HAS_MODE_FS THEN {UP, DOWN} \subseteq ls ELSE i \in ls

\* A loop body without the reset of UP and DOWN in the two-switch build.
SwitchStepNoReset(s, i, ls, t, ar, b) ==
    IF LineClosed(i, ls, b)
    THEN LET s0 == [s EXCEPT !.seen = @ \cup {i}]
         IN  CASE s.fs[i].state = FS_UP ->
                    [s0 EXCEPT !.fs[i] = [state |-> FS_DOWN, timeDown |-> t,
                                          firstDown |-> t]]
               [] s.fs[i].state = FS_DOWN ->
                    IF GT32(Sub32(t, s.fs[i].timeDown), DEBOUNCE_THRESHOLD_MS)
                    THEN [s0 EXCEPT !.fs[i].state = FS_SENT,
                                    !.fs[i].timeDown = t,
                                    !.done = TRUE, !.ret = i]
                    ELSE s0
               [] OTHER ->
                    IF ar = AUTOREPEAT_OFF THEN s0
                    ELSE LET arp == IF GT32(Sub32(t, s.fs[i].firstDown),
                                            AUTOREPEAT_FAST_AFTER)
                                    THEN AUTOREPEAT_FAST_MS ELSE s0.arp
                         IN  IF GT32(Sub32(t, s.fs[i].timeDown), arp)
                             THEN [s0 EXCEPT !.arp = arp, !.fs[i].timeDown = t,
                                             !.done = TRUE, !.ret = i]
                             ELSE [s0 EXCEPT !.arp = arp]
    ELSE [s EXCEPT !.fs[i].state = FS_UP, !.arp = AUTOREPEAT_AFTER_MS]

\* A loop body that repeats with the fast period from the first repeat on.
SwitchStepFastAtOnce(s, i, ls, t, ar, b) ==
    IF LineClosed(i, ls, b)
    THEN LET fs0 == IF i = MODE /\ ~b.HAS_MODE_FS
                    THEN [s.fs EXCEPT ![UP].state = FS_UP, ![DOWN].state = FS_UP]
                    ELSE s.fs
             s0 == [s EXCEPT !.fs = fs0, !.seen = @ \cup {i}]
         IN  CASE fs0[i].state = FS_UP ->
                    [s0 EXCEPT !.fs[i] = [state |-> FS_DOWN, timeDown |-> t,
                                          firstDown |-> t]]
               [] fs0[i].state = FS_DOWN ->
                    IF GT32(Sub32(t, fs0[i].timeDown), DEBOUNCE_THRESHOLD_MS)
                    THEN [s0 EXCEPT !.fs[i].state = FS_SENT,
                                    !.fs[i].timeDown = t,
                                    !.done = TRUE, !.ret = i]
                    ELSE s0
               [] OTHER ->
                    IF ar = AUTOREPEAT_OFF THEN s0
                    ELSE IF GT32(Sub32(t, fs0[i].timeDown), AUTOREPEAT_FAST_MS)
                         THEN [s0 EXCEPT !.arp = AUTOREPEAT_FAST_MS,
                                         !.fs[i].timeDown = t,
                                         !.done = TRUE, !.ret = i]
                         ELSE [s0 EXCEPT !.arp = AUTOREPEAT_FAST_MS]
    ELSE [s EXCEPT !.fs[i].state = FS_UP, !.arp = AUTOREPEAT_AFTER_MS]

\* A loop body that repeats an actioned switch whatever autoRepeat is.
SwitchStepRepeats(s, i, ls, t, ar, b) ==
    IF LineClosed(i, ls, b)
    THEN LET fs0 == IF i = MODE /\ ~b.HAS_MODE_FS
                    THEN [s.fs EXCEPT ![UP].state = FS_UP, ![DOWN].state = FS_UP]
                    ELSE s.fs
             s0 == [s EXCEPT !.fs = fs0, !.seen = @ \cup {i}]
         IN  CASE fs0[i].state = FS_UP ->
                    [s0 EXCEPT !.fs[i] = [state |-> FS_DOWN, timeDown |-> t,
                                          firstDown |-> t]]
               [] fs0[i].state = FS_DOWN ->
                    IF GT32(Sub32(t, fs0[i].timeDown), DEBOUNCE_THRESHOLD_MS)
                    THEN [s0 EXCEPT !.fs[i].state = FS_SENT,
                                    !.fs[i].timeDown = t,
                                    !.done = TRUE, !.ret = i]
                    ELSE s0
               [] OTHER ->
                    LET arp == IF GT32(Sub32(t, fs0[i].firstDown),
                                       AUTOREPEAT_FAST_AFTER)
                               THEN AUTOREPEAT_FAST_MS ELSE s0.arp
                    IN  IF GT32(Sub32(t, fs0[i].timeDown), arp)
                        THEN [s0 EXCEPT !.arp = arp, !.fs[i].timeDown = t,
                                        !.done = TRUE, !.ret = i]
                        ELSE [s0 EXCEPT !.arp = arp]
    ELSE [s EXCEPT !.fs[i].state = FS_UP, !.arp = AUTOREPEAT_AFTER_MS]

\* The body of the for loop for switch i, reading the counter as t.
\* s = [fs, arp, done, ret, seen]: the array, autoRepeatPeriod, whether the
\* function has returned and what, and the roles whose line was read closed.
SwitchStep(s, i, ls, t, ar, b) ==
    IF LineClosed(i, ls, b)
    THEN LET fs0 == IF i = MODE /\ ~b.HAS_MODE_FS
                    THEN [s.fs EXCEPT ![UP].state = FS_UP, ![DOWN].state = FS_UP]
                    ELSE s.fs
             s0 == [s EXCEPT !.fs = fs0, !.seen = @ \cup {i}]
         IN  CASE fs0[i].state = FS_UP ->
                    [s0 EXCEPT !.fs[i] = [state |-> FS_DOWN, timeDown |-> t,
                                          firstDown |-> t]]
               [] fs0[i].state = FS_DOWN ->
                    IF GT32(Sub32(t, fs0[i].timeDown), DEBOUNCE_THRESHOLD_MS)
                    THEN [s0 EXCEPT !.fs[i].state = FS_SENT,
                                    !.fs[i].timeDown = t,
                                    !.done = TRUE, !.ret = i]
                    ELSE s0
               [] OTHER ->
                    IF ar = AUTOREPEAT_OFF
                    THEN s0
                    ELSE LET arp == IF GT32(Sub32(t, fs0[i].firstDown),
                                            AUTOREPEAT_FAST_AFTER)
                                    THEN AUTOREPEAT_FAST_MS ELSE s0.arp
                         IN  IF GT32(Sub32(t, fs0[i].timeDown), arp)
                             THEN [s0 EXCEPT !.arp = arp, !.fs[i].timeDown = t,
                                             !.done = TRUE, !.ret = i]
                             ELSE [s0 EXCEPT !.arp = arp]
    ELSE [s EXCEPT !.fs[i].state = FS_UP, !.arp = AUTOREPEAT_AFTER_MS]

\* for (i = 0; i < MAXFS; i++), left by a return
RECURSIVE ScanFor(_, _, _, _, _, _)
ScanFor(s, i, ls, t, ar, b) ==
    IF i = MAXFS \/ s.done THEN s
    ELSE ScanFor(SwitchStep(s, i, ls, t, ar, b), i + 1, ls, t, ar, b)

\* One pass of the for loop over all switches.
ScanPass(fs, arp, ls, t, ar, b) ==
    ScanFor([fs |-> fs, arp |-> arp, done |-> FALSE, ret |-> NOPRESS, seen |-> {}],
            0, ls, t, ar, b)

\* A timeout test without the test of timeoutMs.
TimedOutAlways(t, start, to) == GT32(Sub32(t, start), to)

\* if (timeoutMs > 0 && (now - startScan) > timeoutMs)
TimedOut(t, start, to) == to > 0 /\ GT32(Sub32(t, start), to)

(***************************************************************************)
(* Bitwise operators of C on non-negative integers.                        *)
(***************************************************************************)
RECURSIVE OrBits(_, _)
OrBits(a, b) ==
    IF a = 0 THEN b
    ELSE IF b = 0 THEN a
    ELSE (IF a % 2 = 1 \/ b % 2 = 1 THEN 1 ELSE 0) + 2 * OrBits(a \div 2, b \div 2)

RECURSIVE AndBits(_, _)
AndBits(a, b) ==
    IF a = 0 \/ b = 0 THEN 0
    ELSE (IF a % 2 = 1 /\ b % 2 = 1 THEN 1 ELSE 0) + 2 * AndBits(a \div 2, b \div 2)

RECURSIVE XorBits(_, _)
XorBits(a, b) ==
    IF a = 0 THEN b
    ELSE IF b = 0 THEN a
    ELSE (IF (a % 2) # (b % 2) THEN 1 ELSE 0) + 2 * XorBits(a \div 2, b \div 2)

(***************************************************************************)
(* Arithmetic of the mode controller.                                      *)
(***************************************************************************)
\* ++midiPatchNo; midiPatchNo %= (maxPatch[range] + 1);   (uint16_t)
PatchUp(p, r) == U16(U16(p + 1) % U16(maxPatch[r] + 1))

\* A decrement that wraps like the increment instead of saturating.
PatchDownWrap(p, r) == U16(p - 1) % U16(maxPatch[r] + 1)

\* --midiPatchNo; if (midiPatchNo > maxPatch[range]) midiPatchNo = maxPatch[range];
PatchDown(p, r) ==
    LET q == U16(p - 1) IN IF q > maxPatch[r] THEN maxPatch[r] ELSE q

\* midiChannel++; midiChannel %= 0x10;   (uint8_t)
ChannelUp(c) == U8(U8(c + 1) % 16)

\* A decrement of the channel without the reduction modulo 16.
ChannelDownNoRing(c) == U8(c - 1)

\* midiChannel--; midiChannel %= 0x10;   (uint8_t)
ChannelDown(c) == U8(U8(c - 1) % 16)

\* An advance of the range without the reduction modulo MAXRANGE + 1.
RangeNextNoWrap(r) == U8(r + 1)

\* range++; range %= (MAXRANGE + 1);   (uint8_t)
RangeNext(r) == U8(U8(r + 1) % (MAXRANGE + 1))

(***************************************************************************)
(* The main context between two scanFS calls, as functions on the record   *)
(*   c = [pc, midiChannel, range, showZeroBased, midiPatchNo, newPatchNo,  *)
(*        eeprom, wrote, uart, display, intensityOut, flashTicks, doFlash, *)
(*        autoRepeat, timeoutMs]                                           *)
(* of what that code reads and writes; sendMIDIBank is bk and the build b. *)
(***************************************************************************)
\* The program change sent before the bank select.
MidiBytesPCFirst(patch, chan, rng, bk) ==
    <<U8(OrBits(MIDI_PC, chan)), U8(patch % 128)>>
    \o (IF bk # 0 \/ rng # 0
        THEN <<U8(OrBits(MIDI_CC, chan)), U8(0), U8(patch \div 128)>>
        ELSE <<>>)

\* The bank select sent for the extended ranges only.
MidiBytesRangeOnly(patch, chan, rng, bk) ==
    (IF rng # 0
     THEN <<U8(OrBits(MIDI_CC, chan)), U8(0), U8(patch \div 128)>>
     ELSE <<>>)
    \o <<U8(OrBits(MIDI_PC, chan)), U8(patch % 128)>>

\* The bytes sendMidiPC hands to UART1_SendData8 (a uint8_t parameter).
MidiBytes(patch, chan, rng, bk) ==
    (IF bk # 0 \/ rng # 0
     THEN <<U8(OrBits(MIDI_CC, chan)), U8(0), U8(patch \div 128)>>
     ELSE <<>>)
    \o <<U8(OrBits(MIDI_PC, chan)), U8(patch % 128)>>

\* unlockEeprom()
UnlockEeprom(c) == [c EXCEPT !.locked = FALSE]

\* lockEeprom()
LockEeprom(c) == [c EXCEPT !.locked = TRUE]

\* writeEepromByte(FLASH_DATA_START_PHYSICAL_ADDRESS + off, val): the byte is
\* programmed if the data memory is unlocked and the cell still programs; the
\* byte read back is compared with val, and the callers drop the result.
WriteEepromByte(c, off, val) ==
    LET chk == IF c.locked \/ off \in c.stuck THEN c.eeprom[off] ELSE U8(val)
    IN  [c EXCEPT !.eeprom[off] = chk,
                  !.wrote = Append(@, [off |-> off, val |-> U8(val),
                                       open |-> ~c.locked, ok |-> chk = U8(val)])]

\* displayPatch(patchNo): the number put on the display
DisplayPatch(c, patchNo) ==
    [c EXCEPT !.display =
        <<"patch", IF c.showZeroBased = 0 THEN U16(patchNo + 1) ELSE patchNo>>]

\* A flashDisplay whose STOP_FLASH case does not issue an intensity.
FlashDisplayNoIssue(c, action) ==
    IF action = START_FLASH
    THEN [c EXCEPT !.flashTicks = FLASH_PERIOD_MS, !.doFlash = 1]
    ELSE [c EXCEPT !.doFlash = 0]

\* flashDisplay(action)
FlashDisplay(c, action) ==
    IF action = START_FLASH
    THEN [c EXCEPT !.flashTicks = FLASH_PERIOD_MS, !.doFlash = 1]
    ELSE [c EXCEPT !.doFlash = 0, !.intensityOut = MAX_DISPLAY_INTENSITY]

\* A transmission that stores the low byte of the patch only.
SendMidiPCLowOnly(c, patch, bk, b) ==
    LET c1 == [c EXCEPT !.uart = @ \o MidiBytes(patch, c.midiChannel, c.range, bk)]
        c2 == IF b.RESTORELASTPC
              THEN LockEeprom(WriteEepromByte(UnlockEeprom(c1), LASTPCLSB,
                                              AndBits(patch, 255)))
              ELSE c1
    IN  DisplayPatch(c2, patch)

\* sendMidiPC(patch)
SendMidiPC(c, patch, bk, b) ==
    LET c1 == [c EXCEPT !.uart = @ \o MidiBytes(patch, c.midiChannel, c.range, bk)]
        c2 == IF b.RESTORELASTPC
              THEN LockEeprom(
                       WriteEepromByte(
                           WriteEepromByte(UnlockEeprom(c1), LASTPCMSB,
                                           AndBits(patch \div 256, 255)),
                           LASTPCLSB, AndBits(patch, 255)))
              ELSE c1
    IN  DisplayPatch(c2, patch)

\* a call scanFS(autoRepeat, timeoutMs) from the place pc
CallScan(c, place, ar, to) ==
    [c EXCEPT !.pc = place, !.autoRepeat = ar, !.timeoutMs = to]

\* A load that takes the range byte as it is stored.
LoadConfigRawRange(c) ==
    CallScan([c EXCEPT
                 !.midiChannel = AndBits(c.eeprom[CHANNELOFFSET], 15),
                 !.range = c.eeprom[RANGEOFFSET],
                 !.showZeroBased = AndBits(c.eeprom[DISPLAYOFFSET], 1)],
             "boot", AUTOREPEAT_OFF, BOOT_TIMEOUT_MS)

\* manageConfig, lines 473-482: load the configuration, start the boot scan
LoadConfig(c) ==
    CallScan([c EXCEPT
                 !.midiChannel = AndBits(c.eeprom[CHANNELOFFSET], 15),
                 !.range = c.eeprom[RANGEOFFSET] % (MAXRANGE + 1),
                 !.showZeroBased = AndBits(c.eeprom[DISPLAYOFFSET], 1)],
             "boot", AUTOREPEAT_OFF, BOOT_TIMEOUT_MS)

\* An entry of main that transmits the initial patch.
EnterMainSends(c, b) ==
    LET c1 == IF b.RESTORELASTPC
              THEN [c EXCEPT !.midiPatchNo =
                        U16(c.eeprom[LASTPCMSB] * 256 + c.eeprom[LASTPCLSB])]
              ELSE c
    IN  CallScan(SendMidiPC(c1, c1.midiPatchNo, 1, b), "main",
                 AUTOREPEAT_OFF, 0)

\* main, lines 763-780: show the initial patch, start the first scan of the loop
EnterMain(c, b) ==
    LET c1 == IF b.RESTORELASTPC
              THEN [c EXCEPT !.midiPatchNo =
                        U16(c.eeprom[LASTPCMSB] * 256 + c.eeprom[LASTPCLSB])]
              ELSE c
    IN  CallScan(DisplayPatch(c1, c1.midiPatchNo), "main", AUTOREPEAT_OFF, 0)

\* A store step that programs the channel byte only.
SaveConfigChannelOnly(c) ==
    LET c1 == FlashDisplay(c, STOP_FLASH)
    IN  IF \/ c1.midiChannel # AndBits(c1.eeprom[CHANNELOFFSET], 15)
           \/ c1.range # c1.eeprom[RANGEOFFSET]
           \/ c1.showZeroBased # c1.eeprom[DISPLAYOFFSET]
        THEN LockEeprom(WriteEepromByte(UnlockEeprom(c1), CHANNELOFFSET,
                                        c1.midiChannel))
        ELSE c1

\* A store step that programs the three bytes at every exit.
SaveConfigAlways(c) ==
    LET c1 == FlashDisplay(c, STOP_FLASH)
    IN  LockEeprom(
            WriteEepromByte(
                WriteEepromByte(
                    WriteEepromByte(UnlockEeprom(c1), CHANNELOFFSET,
                                    c1.midiChannel),
                    RANGEOFFSET, c1.range),
                DISPLAYOFFSET, c1.showZeroBased))

\* A store step that gives up, unlocked, at the first byte that does not
\* read back as written.
SaveConfigQuitOnFail(c) ==
    LET c1 == FlashDisplay(c, STOP_FLASH)
        w1 == WriteEepromByte(UnlockEeprom(c1), CHANNELOFFSET, c1.midiChannel)
        w2 == WriteEepromByte(w1, RANGEOFFSET, c1.range)
        w3 == WriteEepromByte(w2, DISPLAYOFFSET, c1.showZeroBased)
    IN  IF \/ c1.midiChannel # AndBits(c1.eeprom[CHANNELOFFSET], 15)
           \/ c1.range # c1.eeprom[RANGEOFFSET]
           \/ c1.showZeroBased # c1.eeprom[DISPLAYOFFSET]
        THEN IF ~w1.wrote[1].ok THEN w1
             ELSE IF ~w2.wrote[2].ok THEN w2
             ELSE IF ~w3.wrote[3].ok THEN w3
             ELSE LockEeprom(w3)
        ELSE c1

\* A store step that writes a byte again when it did not read back as written.
SaveConfigRetries(c) ==
    LET c1 == FlashDisplay(c, STOP_FLASH)
        w1 == WriteEepromByte(UnlockEeprom(c1), CHANNELOFFSET, c1.midiChannel)
        r1 == IF w1.wrote[Len(w1.wrote)].ok THEN w1
              ELSE WriteEepromByte(w1, CHANNELOFFSET, c1.midiChannel)
        w2 == WriteEepromByte(r1, RANGEOFFSET, c1.range)
        r2 == IF w2.wrote[Len(w2.wrote)].ok THEN w2
              ELSE WriteEepromByte(w2, RANGEOFFSET, c1.range)
        w3 == WriteEepromByte(r2, DISPLAYOFFSET, c1.showZeroBased)
        r3 == IF w3.wrote[Len(w3.wrote)].ok THEN w3
              ELSE WriteEepromByte(w3, DISPLAYOFFSET, c1.showZeroBased)
    IN  IF \/ c1.midiChannel # AndBits(c1.eeprom[CHANNELOFFSET], 15)
           \/ c1.range # c1.eeprom[RANGEOFFSET]
           \/ c1.showZeroBased # c1.eeprom[DISPLAYOFFSET]
        THEN LockEeprom(r3)
        ELSE c1

\* manageConfig, lines 495-509: stop flashing and store a changed configuration
SaveConfig(c) ==
    LET c1 == FlashDisplay(c, STOP_FLASH)
    IN  IF \/ c1.midiChannel # AndBits(c1.eeprom[CHANNELOFFSET], 15)
           \/ c1.range # c1.eeprom[RANGEOFFSET]
           \/ c1.showZeroBased # c1.eeprom[DISPLAYOFFSET]
        THEN LockEeprom(
                 WriteEepromByte(
                     WriteEepromByte(
                         WriteEepromByte(UnlockEeprom(c1), CHANNELOFFSET,
                                         c1.midiChannel),
                         RANGEOFFSET, c1.range),
                     DISPLAYOFFSET, c1.showZeroBased))
        ELSE c1

\* entry of configMIDI and of configDisplay: what they first show
ShowMidiChannel(c) == [c EXCEPT !.display = <<"chan", c.midiChannel, c.range>>]
ShowFlag(c) == [c EXCEPT !.display = <<"flag", XorBits(c.showZeroBased, 1)>>]

\* A dispatch with the two config modes exchanged.
ManageConfigSwapped(c, buf, b) ==
    IF buf = NOPRESS
    THEN EnterMain(c, b)
    ELSE IF buf = DOWN
         THEN CallScan(ShowMidiChannel(FlashDisplay(c, START_FLASH)),
                       "cfgMIDI", AUTOREPEAT_OFF, CONFIG_TIMEOUT_MS)
         ELSE CallScan(ShowFlag(FlashDisplay(c, START_FLASH)),
                       "cfgDisplay", AUTOREPEAT_OFF, CONFIG_TIMEOUT_MS)

\* manageConfig, lines 482-495, on the value buf of the boot scan
ManageConfig(c, buf, b) ==
    IF buf = NOPRESS
    THEN EnterMain(c, b)
    ELSE IF buf = DOWN
         THEN CallScan(ShowFlag(FlashDisplay(c, START_FLASH)),
                       "cfgDisplay", AUTOREPEAT_OFF, CONFIG_TIMEOUT_MS)
         ELSE CallScan(ShowMidiChannel(FlashDisplay(c, START_FLASH)),
                       "cfgMIDI", AUTOREPEAT_OFF, CONFIG_TIMEOUT_MS)

\* A MIDI config mode in which MODE toggles the display flag.
ConfigMIDIModeFlag(c, ev, b) ==
    CASE ev = UP ->
           CallScan(ShowMidiChannel([c EXCEPT !.midiChannel = ChannelUp(@)]),
                    "cfgMIDI", AUTOREPEAT_OFF, CONFIG_TIMEOUT_MS)
      [] ev = DOWN ->
           CallScan(ShowMidiChannel([c EXCEPT !.midiChannel = ChannelDown(@)]),
                    "cfgMIDI", AUTOREPEAT_OFF, CONFIG_TIMEOUT_MS)
      [] ev = MODE ->
           CallScan(ShowMidiChannel([c EXCEPT !.showZeroBased = XorBits(@, 1)]),
                    "cfgMIDI", AUTOREPEAT_OFF, CONFIG_TIMEOUT_MS)
      [] OTHER -> EnterMain(SaveConfig(c), b)

\* configMIDI: one turn of its loop on the scan result ev
ConfigMIDI(c, ev, b) ==
    CASE ev = UP ->
           CallScan(ShowMidiChannel([c EXCEPT !.midiChannel = ChannelUp(@)]),
                    "cfgMIDI", AUTOREPEAT_OFF, CONFIG_TIMEOUT_MS)
      [] ev = DOWN ->
           CallScan(ShowMidiChannel([c EXCEPT !.midiChannel = ChannelDown(@)]),
                    "cfgMIDI", AUTOREPEAT_OFF, CONFIG_TIMEOUT_MS)
      [] ev = MODE ->
           CallScan(ShowMidiChannel([c EXCEPT !.range = RangeNext(@)]),
                    "cfgMIDI", AUTOREPEAT_OFF, CONFIG_TIMEOUT_MS)
      [] OTHER -> EnterMain(SaveConfig(c), b)

\* A display config mode in which only UP toggles and DOWN leaves.
ConfigDisplayUpOnly(c, ev, b) ==
    IF ev = UP
    THEN CallScan(ShowFlag([c EXCEPT !.showZeroBased = XorBits(@, 1)]),
                  "cfgDisplay", AUTOREPEAT_OFF, CONFIG_TIMEOUT_MS)
    ELSE EnterMain(SaveConfig(c), b)

\* configDisplay: one turn of its loop on the scan result ev
ConfigDisplay(c, ev, b) ==
    IF ev = UP \/ ev = DOWN
    THEN CallScan(ShowFlag([c EXCEPT !.showZeroBased = XorBits(@, 1)]),
                  "cfgDisplay", AUTOREPEAT_OFF, CONFIG_TIMEOUT_MS)
    ELSE EnterMain(SaveConfig(c), b)

\* A main loop that steps down without transmitting.
MainLoopSilentDown(c, ev, bk, b) ==
    CASE ev = UP ->
           LET p == PatchUp(c.midiPatchNo, c.range)
           IN  CallScan(SendMidiPC([c EXCEPT !.midiPatchNo = p], p, bk, b),
                        "main", AUTOREPEAT_OFF, 0)
      [] ev = DOWN ->
           LET p == PatchDown(c.midiPatchNo, c.range)
           IN  CallScan(DisplayPatch([c EXCEPT !.midiPatchNo = p], p),
                        "main", AUTOREPEAT_OFF, 0)
      [] ev = MODE ->
           CallScan(FlashDisplay([c EXCEPT !.newPatchNo = c.midiPatchNo],
                                 START_FLASH),
                    "mode2", AUTOREPEAT_ON, 0)
      [] OTHER -> CallScan(c, "main", AUTOREPEAT_OFF, 0)

\* main: one turn of the while (1) loop on the scan result ev
MainLoop(c, ev, bk, b) ==
    CASE ev = UP ->
           LET p == PatchUp(c.midiPatchNo, c.range)
           IN  CallScan(SendMidiPC([c EXCEPT !.midiPatchNo = p], p, bk, b),
                        "main", AUTOREPEAT_OFF, 0)
      [] ev = DOWN ->
           LET p == PatchDown(c.midiPatchNo, c.range)
           IN  CallScan(SendMidiPC([c EXCEPT !.midiPatchNo = p], p, bk, b),
                        "main", AUTOREPEAT_OFF, 0)
      [] ev = MODE ->
           \* mode2, lines 603-610
           CallScan(FlashDisplay([c EXCEPT !.newPatchNo = c.midiPatchNo],
                                 START_FLASH),
                    "mode2", AUTOREPEAT_ON, 0)
      [] OTHER -> CallScan(c, "main", AUTOREPEAT_OFF, 0)

\* A scroll mode that transmits every adjustment.
Mode2SendsEach(c, ev, bk, b) ==
    CASE ev = UP ->
           LET p == PatchUp(c.newPatchNo, c.range)
           IN  CallScan(SendMidiPC([c EXCEPT !.newPatchNo = p], p, bk, b),
                        "mode2", AUTOREPEAT_ON, 0)
      [] ev = DOWN ->
           LET p == PatchDown(c.newPatchNo, c.range)
           IN  CallScan(SendMidiPC([c EXCEPT !.newPatchNo = p], p, bk, b),
                        "mode2", AUTOREPEAT_ON, 0)
      [] ev = MODE ->
           LET c1 == [c EXCEPT !.midiPatchNo = c.newPatchNo]
           IN  CallScan(FlashDisplay(SendMidiPC(c1, c1.midiPatchNo, bk, b),
                                     STOP_FLASH),
                        "main", AUTOREPEAT_OFF, 0)
      [] OTHER -> CallScan(c, "mode2", AUTOREPEAT_ON, 0)

\* A scroll mode that adjusts the committed patch itself.
Mode2WritesThrough(c, ev, bk, b) ==
    CASE ev = UP ->
           LET p == PatchUp(c.newPatchNo, c.range)
           IN  CallScan(DisplayPatch([c EXCEPT !.newPatchNo = p,
                                               !.midiPatchNo = p], p),
                        "mode2", AUTOREPEAT_ON, 0)
      [] ev = DOWN ->
           LET p == PatchDown(c.newPatchNo, c.range)
           IN  CallScan(DisplayPatch([c EXCEPT !.newPatchNo = p,
                                               !.midiPatchNo = p], p),
                        "mode2", AUTOREPEAT_ON, 0)
      [] ev = MODE ->
           LET c1 == [c EXCEPT !.midiPatchNo = c.newPatchNo]
           IN  CallScan(FlashDisplay(SendMidiPC(c1, c1.midiPatchNo, bk, b),
                                     STOP_FLASH),
                        "main", AUTOREPEAT_OFF, 0)
      [] OTHER -> CallScan(c, "mode2", AUTOREPEAT_ON, 0)

\* mode2: one turn of its while loop on the scan result ev; on MODE the
\* commit (lines 632-636) and the next scan of main
Mode2(c, ev, bk, b) ==
    CASE ev = UP ->
           LET p == PatchUp(c.newPatchNo, c.range)
           IN  CallScan(DisplayPatch([c EXCEPT !.newPatchNo = p], p),
                        "mode2", AUTOREPEAT_ON, 0)
      [] ev = DOWN ->
           LET p == PatchDown(c.newPatchNo, c.range)
           IN  CallScan(DisplayPatch([c EXCEPT !.newPatchNo = p], p),
                        "mode2", AUTOREPEAT_ON, 0)
      [] ev = MODE ->
           LET c1 == [c EXCEPT !.midiPatchNo = c.newPatchNo]
           IN  CallScan(FlashDisplay(SendMidiPC(c1, c1.midiPatchNo, bk, b),
                                     STOP_FLASH),
                        "main", AUTOREPEAT_OFF, 0)
      [] OTHER -> CallScan(c, "mode2", AUTOREPEAT_ON, 0)

(***************************************************************************)
(* Actions.                                                                *)
(***************************************************************************)
\* What the main context reads and writes between two scanFS calls; the logs
\* of EEPROM writes and UART bytes start empty at each such stretch of code.
Ctl ==
    [pc |-> pc, midiChannel |-> midiChannel, range |-> range,
     showZeroBased |-> showZeroBased, midiPatchNo |-> midiPatchNo,
     newPatchNo |-> newPatchNo, eeprom |-> eeprom, locked |-> locked,
     stuck |-> stuck, wrote |-> <<>>,
     uart |-> <<>>, display |-> display, intensityOut |-> intensityOut,
     flashTicks |-> flashTicks, doFlash |-> doFlash,
     autoRepeat |-> autoRepeat, timeoutMs |-> timeoutMs, boots |-> last.boots]

\* The state after that code, n, and the first statements of the scanFS call
\* it ends with: autoRepeatPeriod = AUTOREPEAT_AFTER_MS; startScan = now.
Apply(n) ==
    /\ pc' = n.pc
    /\ midiChannel' = n.midiChannel
    /\ range' = n.range
    /\ showZeroBased' = n.showZeroBased
    /\ midiPatchNo' = n.midiPatchNo
    /\ newPatchNo' = n.newPatchNo
    /\ eeprom' = n.eeprom
    /\ locked' = n.locked
    /\ wrote' = n.wrote
    /\ uart' = n.uart
    /\ display' = n.display
    /\ intensityOut' = n.intensityOut
    /\ flashTicks' = n.flashTicks
    /\ doFlash' = n.doFlash
    /\ autoRepeat' = n.autoRepeat
    /\ timeoutMs' = n.timeoutMs
    /\ startScan' = now
    /\ nowRead' = now
    /\ scanFrom' = clock
    /\ autoRepeatPeriod' = AUTOREPEAT_AFTER_MS
    /\ scanning' = TRUE
    /\ sampled' = FALSE
    /\ gap' = 0
    /\ nAdjust' = IF n.pc # "mode2" THEN 0
                  ELSE IF pc = "mode2" THEN nAdjust + 1 ELSE 0
    /\ last' = [pc |-> pc, ev |-> ret, patch |-> midiPatchNo, work |-> newPatchNo,
                chan |-> midiChannel, rng |-> range, flag |-> showZeroBased,
                store |-> eeprom, boots |-> n.boots]
    /\ UNCHANGED <<buildVars, now, displayIntensity, fsArr, ret, closed,
                   nTicks, nToggles, clock, closedAt, evIn, offOnly, shortPress,
                   lastScan>>

\* main up to the scanFS call of manageConfig
Boot == pc = "reset" /\ Apply(LoadConfig(Ctl))

\* manageConfig after the boot scan
ManageConfigStep ==
    pc = "boot" /\ ~scanning /\ Apply(ManageConfig(Ctl, ret, build))

ConfigMIDIStep ==
    pc = "cfgMIDI" /\ ~scanning /\ Apply(ConfigMIDI(Ctl, ret, build))

ConfigDisplayStep ==
    pc = "cfgDisplay" /\ ~scanning /\ Apply(ConfigDisplay(Ctl, ret, build))

MainStep ==
    pc = "main" /\ ~scanning /\ Apply(MainLoop(Ctl, ret, sendMIDIBank, build))

Mode2Step ==
    pc = "mode2" /\ ~scanning /\ Apply(Mode2(Ctl, ret, sendMIDIBank, build))

\* One pass of the while (1) loop of scanFS.
ScanIter ==
    /\ scanning /\ ~sampled
    /\ IF TimedOut(nowRead, startScan, timeoutMs)
       THEN /\ ret' = NOPRESS
            /\ scanning' = FALSE
            /\ sampled' = FALSE
            /\ lastScan' = [ret |-> NOPRESS, seen |-> {}, ar |-> autoRepeat]
            /\ UNCHANGED <<fsArr, autoRepeatPeriod, intensityOut, evIn, offOnly>>
       ELSE LET p == ScanPass(fsArr, autoRepeatPeriod, closed, now, autoRepeat, build)
            IN  /\ intensityOut' = IF doFlash # 0 THEN displayIntensity
                                   ELSE intensityOut
                /\ fsArr' = p.fs
                /\ autoRepeatPeriod' = p.arp
                /\ offOnly' = [r \in Roles |->
                                 offOnly[r] /\ (LineClosed(r, closed, build)
                                                => autoRepeat = AUTOREPEAT_OFF)]
                /\ IF p.done
                   THEN /\ ret' = p.ret
                        /\ scanning' = FALSE
                        /\ sampled' = FALSE
                        /\ evIn' = [evIn EXCEPT ![p.ret] = @ + 1]
                        /\ lastScan' = [ret |-> p.ret, seen |-> p.seen,
                                        ar |-> autoRepeat]
                   ELSE /\ sampled' = TRUE
                        /\ UNCHANGED <<ret, scanning, evIn, lastScan>>
    /\ UNCHANGED <<buildVars, isrVars, autoRepeat, timeoutMs, startScan, nowRead,
                   closed, ctlVars, eeprom, locked, wrote, uart, display, cntVars,
                   clock, closedAt, shortPress, scanFrom, last>>

\* The lengths of a burst of ticks.
TickBursts == {1, DEBOUNCE_THRESHOLD_MS}

\* What a later pass can read of the array: the times of a switch in state
\* FS_UP are overwritten before they are read.
Live(fs) ==
    [i \in DOMAIN fs |-> IF fs[i].state = FS_UP THEN [state |-> FS_UP] ELSE fs[i]]

\* A pass of the scan loop at the tick before the end of a burst of d would
\* return nothing and change nothing.  Every test of a pass compares the time
\* elapsed with a threshold, so the same holds of the passes at the ticks
\* before that one.
Quiet(d) ==
    LET t == Add32(now, d - 1)
        p == ScanPass(fsArr, autoRepeatPeriod, closed, t, autoRepeat, build)
    IN  /\ ~TimedOut(t, startScan, timeoutMs)
        /\ ~p.done
        /\ Live(p.fs) = Live(fsArr)
        /\ p.arp = autoRepeatPeriod

\* With the last of d timer interrupts the closed switches become ls; at most
\* one switch changes at a time; at most max bursts in a behaviour.
TickTo(max, d, ls) ==
    /\ nTicks < max
    /\ Cardinality((ls \ closed) \cup (closed \ ls)) <= 1
    /\ Cardinality((ls \ closed) \cup (closed \ ls)) <= MaxToggles - nToggles
    /\ closed' = ls
    /\ sampled' = FALSE
    /\ gap' = IF scanning THEN gap ELSE gap + 1
    /\ nTicks' = nTicks + 1
    /\ nToggles' = nToggles + Cardinality((ls \ closed) \cup (closed \ ls))
    /\ clock' = clock + d
    /\ LET opens(r) == LineClosed(r, closed, build) /\ ~LineClosed(r, ls, build)
           closes(r) == ~LineClosed(r, closed, build) /\ LineClosed(r, ls, build)
       IN  /\ closedAt' = [r \in Roles |-> IF closes(r) THEN clock' ELSE closedAt[r]]
           /\ evIn' = [r \in Roles |-> IF closes(r) THEN 0 ELSE evIn[r]]
           /\ offOnly' = [r \in Roles |-> IF closes(r) THEN TRUE ELSE offOnly[r]]
           /\ shortPress' = shortPress \cup
                  {r \in Roles : /\ opens(r) /\ evIn[r] > 0
                                 /\ clock' - closedAt[r] < DEBOUNCE_THRESHOLD_MS}
    /\ UNCHANGED <<buildVars, doFlash, fsArr, callVars, scanning, ret, ctlVars,
                   ioVars, nAdjust, lastScan, scanFrom, last>>

Tick(d, ls) == TickTo(MaxTicks, d, ls)

\* The ticks of the counter, in bursts: while scanFS runs, a burst is one tick
\* or a quiet stretch; between two scanFS calls the ticks come one by one.
\* The last interrupt of a burst may come while the running pass reads now
\* for its timeout test.
TicksUpTo(max, bursts) ==
    \E d \in bursts :
        /\ IF scanning THEN sampled /\ (d = 1 \/ Quiet(d))
                       ELSE d = 1 /\ gap < MaxGap /\ pc # "reset"
        /\ LET s == IrqN([now |-> now, flashTicks |-> flashTicks,
                          displayIntensity |-> displayIntensity], doFlash, d)
           IN  /\ now' = s.now
               /\ flashTicks' = s.flashTicks
               /\ displayIntensity' = s.displayIntensity
               /\ nowRead' \in
                      IF scanning /\ timeoutMs > 0
                      THEN {s.now} \cup TornReads(Add32(now, d - 1))
                      ELSE {s.now}
        /\ \E ls \in SUBSET Switches(build) : TickTo(max, d, ls)

TicksOf(bursts) == TicksUpTo(MaxTicks, bursts)

Ticks == TicksOf(TickBursts)

(***************************************************************************)
(* The whole program from power-up.                                        *)
(***************************************************************************)
Builds == [HAS_MODE_FS : BOOLEAN, DONTSENDBANK : BOOLEAN, RESTORELASTPC : BOOLEAN]

\* VARIANT = -D${DISPLAY}: none of the optional features is compiled in.
MakefileBuild ==
    [HAS_MODE_FS |-> FALSE, DONTSENDBANK |-> FALSE, RESTORELASTPC |-> FALSE]

\* The EEPROM as the zero-eeprom target of the Makefile leaves it.
ZeroStore == [o \in 0..4 |-> 0]

\* The static initialisers of lasc.c; nothing is known of the EEPROM and of
\* the switches at power-up.
InitStatics ==
    /\ now = U32(0) /\ flashTicks = 0 /\ doFlash = 0
    /\ displayIntensity = MAX_DISPLAY_INTENSITY
    /\ fsArr = [i \in 0..(MAXFS - 1) |->
                  [state |-> FS_UP, timeDown |-> U32(0), firstDown |-> U32(0)]]
    /\ autoRepeat = AUTOREPEAT_OFF /\ timeoutMs = 0 /\ startScan = U32(0)
    /\ autoRepeatPeriod = AUTOREPEAT_AFTER_MS
    /\ scanning = FALSE /\ sampled = FALSE /\ ret = NOPRESS
    /\ nowRead = U32(0)
    /\ pc = "reset"
    /\ midiChannel = 0 /\ midiPatchNo = 0 /\ range = 0 /\ showZeroBased = 0
    /\ newPatchNo = 0
    /\ locked = TRUE /\ wrote = <<>> /\ uart = <<>>
    /\ display = <<"blank">> /\ intensityOut = MAX_DISPLAY_INTENSITY

InitCounters ==
    /\ nTicks = 0 /\ nToggles = 0 /\ gap = 0 /\ nAdjust = 0
    /\ clock = 0
    /\ closedAt = [r \in Roles |-> 0]
    /\ evIn = [r \in Roles |-> 0]
    /\ offOnly = [r \in Roles |-> TRUE]
    /\ shortPress = {}
    /\ lastScan = [ret |-> NOPRESS, seen |-> {}, ar |-> AUTOREPEAT_OFF]
    /\ scanFrom = 0
    /\ last = [pc |-> "none", ev |-> NOPRESS, patch |-> 0, work |-> 0,
               chan |-> 0, rng |-> 0, flag |-> 0, store |-> eeprom,
               boots |-> 0]

Init ==
    /\ build = MakefileBuild
    /\ sendMIDIBank = IF build.DONTSENDBANK THEN 0 ELSE 1
    /\ stuck = {}
    /\ closed \in SUBSET Switches(build)
    /\ eeprom = ZeroStore
    /\ InitStatics
    /\ InitCounters

Handle ==
    \/ Boot
    \/ ManageConfigStep
    \/ ConfigMIDIStep
    \/ ConfigDisplayStep
    \/ MainStep
    \/ Mode2Step

Next ==
    \/ Handle
    \/ ScanIter
    \/ Ticks

Spec == Init /\ [][Next]_vars

(***************************************************************************)
(* The mode controller on its own: scanFS is taken by what it returns.     *)
(***************************************************************************)
\* A call of scanFS returns ev; 0xFF only from a call with a timeout.
ScanResult(ev) ==
    /\ scanning
    /\ ev \in {UP, DOWN, MODE} \/ (ev = NOPRESS /\ timeoutMs > 0)
    /\ ret' = ev
    /\ scanning' = FALSE
    /\ UNCHANGED <<buildVars, isrVars, fsArr, callVars, sampled, nowRead, closed,
                   ctlVars, ioVars, cntVars, histVars>>

\* The timer and the switches at rest.
InitScan ==
    /\ now = U32(0)
    /\ displayIntensity = MAX_DISPLAY_INTENSITY
    /\ fsArr = [i \in 0..(MAXFS - 1) |->
                  [state |-> FS_UP, timeDown |-> U32(0), firstDown |-> U32(0)]]
    /\ startScan = U32(0)
    /\ nowRead = U32(0)
    /\ autoRepeatPeriod = AUTOREPEAT_AFTER_MS
    /\ sampled = FALSE /\ ret = NOPRESS
    /\ closed = {}
    /\ locked = TRUE /\ wrote = <<>> /\ uart = <<>>
    /\ intensityOut = MAX_DISPLAY_INTENSITY

\* The EEPROM that a run with channel ch, range r, display flag z and last
\* transmitted patch p has left.
StoreOf(ch, r, z, p, b) ==
    [o \in 0..4 |->
        CASE o = CHANNELOFFSET -> ch
          [] o = RANGEOFFSET   -> r
          [] o = DISPLAYOFFSET -> z
          [] o = LASTPCMSB     -> IF b.RESTORELASTPC THEN p \div 256 ELSE 0
          [] o = LASTPCLSB     -> IF b.RESTORELASTPC THEN p % 256 ELSE 0]

\* The program waiting in the scanFS call of main (place "main") or in that of
\* mode2 just entered (place "mode2"), with committed patch p.
Waiting(place, chans, patches, bs) ==
    /\ build \in bs
    /\ sendMIDIBank = IF build.DONTSENDBANK THEN 0 ELSE 1
    /\ stuck = {}
    /\ pc = place
    /\ scanning = TRUE
    /\ timeoutMs = 0
    /\ autoRepeat = IF place = "mode2" THEN AUTOREPEAT_ON ELSE AUTOREPEAT_OFF
    /\ doFlash = IF place = "mode2" THEN 1 ELSE 0
    /\ flashTicks = IF place = "mode2" THEN FLASH_PERIOD_MS ELSE 0
    /\ midiChannel \in chans
    /\ range \in 0..MAXRANGE
    /\ showZeroBased = 0
    /\ midiPatchNo \in patches[range]
    /\ newPatchNo = IF place = "mode2" THEN midiPatchNo ELSE 0
    /\ eeprom = StoreOf(midiChannel, range, showZeroBased, midiPatchNo, build)
    /\ display = <<"patch", midiPatchNo + 1>>
    /\ InitScan
    /\ InitCounters

\* One scroll session: from main, at most one patch change, then MODE, at
\* most MaxAdjust adjustments, and the MODE that commits.
ScrollPatches ==
    [r \in 0..MAXRANGE |-> {0, 1, 10, maxPatch[r] - 1, maxPatch[r]}]

ScrollBuilds == {b \in Builds : ~b.HAS_MODE_FS /\ ~b.RESTORELASTPC}

InitScroll == Waiting("main", {0, 15}, ScrollPatches, ScrollBuilds)

ScrollEvent ==
    \E ev \in {UP, DOWN, MODE} :
        /\ (pc = "mode2" /\ ev # MODE) => nAdjust < MaxAdjust
        /\ (pc = "main" /\ ev # MODE) => last.pc = "none"
        /\ pc = "main" => last.pc # "mode2"
        /\ ScanResult(ev)

NextScroll ==
    \/ ScrollEvent
    \/ MainStep
    \/ Mode2Step

SpecScroll == InitScroll /\ [][NextScroll]_vars

\* One event in any operational state.
AllPatches == [r \in 0..MAXRANGE |-> 0..maxPatch[r]]

InitStep ==
    \/ Waiting("main", 0..15, AllPatches, ScrollBuilds)
    \/ Waiting("mode2", {0, 15}, AllPatches, ScrollBuilds)

FirstEvent ==
    /\ last.pc = "none"
    /\ \E ev \in {UP, DOWN, MODE} : ScanResult(ev)

NextStep ==
    \/ FirstEvent
    \/ MainStep
    \/ Mode2Step

SpecStep == InitStep /\ [][NextStep]_vars

\* The configuration modes: from power-up until main is entered.
ErasedStore == [o \in 0..4 |-> W8 - 1]

\* At most one EEPROM cell is worn out.
StuckSets == {{}} \cup {{o} : o \in 0..4}

InitConfig ==
    /\ build \in {b \in Builds : ~b.HAS_MODE_FS /\ ~b.DONTSENDBANK}
    /\ sendMIDIBank = IF build.DONTSENDBANK THEN 0 ELSE 1
    /\ stuck \in StuckSets
    /\ eeprom \in {ZeroStore, ErasedStore}
    /\ closed = {}
    /\ InitStatics
    /\ InitCounters

\* The statics as the startup code sets them when power returns; the EEPROM
\* keeps its bytes.
PowerOn ==
    [Ctl EXCEPT !.pc = "reset", !.midiChannel = 0, !.range = 0,
                !.showZeroBased = 0, !.midiPatchNo = 0, !.newPatchNo = 0,
                !.locked = TRUE, !.display = <<"blank">>,
                !.intensityOut = MAX_DISPLAY_INTENSITY, !.flashTicks = 0,
                !.doFlash = 0, !.autoRepeat = AUTOREPEAT_OFF, !.timeoutMs = 0,
                !.boots = @ + 1]

\* Power is cut while main waits for a switch, and returns: main runs again
\* up to the scanFS call of manageConfig.
PowerCycle == pc = "main" /\ scanning /\ Apply(LoadConfig(PowerOn))

\* The boot scan of the run after a power cycle.
Rebooted == pc = "boot" /\ last.pc = "main"

\* One run from power-up through the configuration modes to the first patch
\* change of main, then a power cycle and the load of the next run.
ConfigEvent ==
    /\ ~Rebooted
    /\ pc = "main" => last.pc # "main"
    /\ \E ev \in {UP, DOWN, MODE, NOPRESS} :
          /\ pc = "main" => ev \in {UP, DOWN}
          /\ ScanResult(ev)

NextConfig ==
    \/ Boot
    \/ ConfigEvent
    \/ ManageConfigStep
    \/ ConfigMIDIStep
    \/ ConfigDisplayStep
    \/ MainStep
    \/ PowerCycle

SpecConfig == InitConfig /\ [][NextConfig]_vars

(***************************************************************************)
(* Two runs of a build that restores the last patch.                       *)
(***************************************************************************)
InitRestore ==
    /\ build = [MakefileBuild EXCEPT !.RESTORELASTPC = TRUE]
    /\ sendMIDIBank = IF build.DONTSENDBANK THEN 0 ELSE 1
    /\ stuck \in {{}, {LASTPCLSB}}
    /\ eeprom = ZeroStore
    /\ closed = {}
    /\ InitStatics
    /\ InitCounters

\* The first run: any configuration session, then at most one patch change.
\* The second run: any result of the boot scan, at most one event in a config
\* mode, and no event in main.
RestoreEvent ==
    \E ev \in {UP, DOWN, MODE, NOPRESS} :
        /\ pc = "main" => (last.boots = 0 /\ last.pc # "main" /\ ev \in {UP, DOWN})
        /\ (pc \in {"cfgMIDI", "cfgDisplay"} /\ last.boots = 1 /\ last.pc # "boot")
               => ev = NOPRESS
        /\ ScanResult(ev)

FirstPowerCycle == last.boots = 0 /\ PowerCycle

NextRestore ==
    \/ Boot
    \/ RestoreEvent
    \/ ManageConfigStep
    \/ ConfigMIDIStep
    \/ ConfigDisplayStep
    \/ MainStep
    \/ FirstPowerCycle

SpecRestore == InitRestore /\ [][NextRestore]_vars

(***************************************************************************)
(* A build that restores the last patch, powered up on any stored patch.   *)
(***************************************************************************)
\* The two bytes of the stored patch as the program finds them: zero, written
\* by an earlier run, or never written by this program.
StoredPatches == {0, 1, 127, 128, 998, 999, 16383, 16384, W16 - 1}

StoredBuilds == {b \in Builds : ~b.HAS_MODE_FS /\ b.RESTORELASTPC}

InitStored ==
    /\ build \in StoredBuilds
    /\ sendMIDIBank = IF build.DONTSENDBANK THEN 0 ELSE 1
    /\ stuck = {}
    /\ \E r \in {0, MAXRANGE}, p \in StoredPatches :
          eeprom = StoreOf(0, r, 0, p, build)
    /\ closed = {}
    /\ InitStatics
    /\ InitCounters

\* One run: any result of the boot scan, at most one event in a config mode,
\* at most one patch change in main, then one scroll session of at most
\* MaxAdjust adjustments.
StoredEvent ==
    \E ev \in {UP, DOWN, MODE, NOPRESS} :
        /\ (pc \in {"cfgMIDI", "cfgDisplay"} /\ last.pc # "boot") => ev = NOPRESS
        /\ (pc = "mode2" /\ ev # MODE) => nAdjust < MaxAdjust
        /\ pc = "main" => last.pc # "mode2"
        /\ (pc = "main" /\ ev # MODE) => last.pc # "main"
        /\ ScanResult(ev)

NextStored ==
    \/ Boot
    \/ StoredEvent
    \/ ManageConfigStep
    \/ ConfigMIDIStep
    \/ ConfigDisplayStep
    \/ MainStep
    \/ Mode2Step

SpecStored == InitStored /\ [][NextStored]_vars

(***************************************************************************)
(* The load of the configuration from any EEPROM content.                  *)
(***************************************************************************)
\* One configuration byte takes every value, the other two are 0 or 0xFF.
LoadStores ==
    {[o \in 0..4 |-> IF o = k THEN v
                     ELSE IF o \in hi THEN W8 - 1 ELSE 0] :
        k \in {CHANNELOFFSET, RANGEOFFSET, DISPLAYOFFSET},
        v \in 0..(W8 - 1),
        hi \in SUBSET {CHANNELOFFSET, RANGEOFFSET, DISPLAYOFFSET}}

InitLoad ==
    /\ build = MakefileBuild
    /\ sendMIDIBank = IF build.DONTSENDBANK THEN 0 ELSE 1
    /\ stuck = {}
    /\ eeprom \in LoadStores
    /\ closed = {}
    /\ InitStatics
    /\ InitCounters

\* Any result of the boot scan; in a config mode one event at most, then the
\* timeout.
LoadEvent ==
    /\ pc \in {"boot", "cfgMIDI", "cfgDisplay"}
    /\ \E ev \in {UP, DOWN, MODE, NOPRESS} :
          /\ (pc # "boot" /\ last.pc # "boot") => ev = NOPRESS
          /\ ScanResult(ev)

NextLoad ==
    \/ Boot
    \/ LoadEvent
    \/ ManageConfigStep
    \/ ConfigMIDIStep
    \/ ConfigDisplayStep

SpecLoad == InitLoad /\ [][NextLoad]_vars

(***************************************************************************)
(* A config mode with the scan loop and the timer running.                 *)
(***************************************************************************)
\* The counter runs from enableInterrupts in main; the initialisation of the
\* display and the boot scan take their time before a config mode is entered.
IdleEntries == {56, 206}

\* configMIDI entered with UP held, configDisplay with DOWN held: the switch
\* closed 51 ms before the boot scan returned it, and is still closed or has
\* been seen open by a pass since.
InitIdle ==
    /\ build = MakefileBuild
    /\ sendMIDIBank = IF build.DONTSENDBANK THEN 0 ELSE 1
    /\ stuck = {}
    /\ eeprom = ZeroStore
    /\ pc \in {"cfgMIDI", "cfgDisplay"}
    /\ \E n \in IdleEntries, held \in BOOLEAN :
          LET sw == IF pc = "cfgMIDI" THEN UP ELSE DOWN
          IN  /\ now = U32(n) /\ startScan = U32(n) /\ nowRead = U32(n)
              /\ closed = IF held THEN {sw} ELSE {}
              /\ fsArr = [i \in 0..(MAXFS - 1) |->
                            IF i = sw
                            THEN [state |-> IF held THEN FS_SENT ELSE FS_UP,
                                  timeDown |-> U32(n),
                                  firstDown |-> U32(n - DEBOUNCE_THRESHOLD_MS - 1)]
                            ELSE [state |-> FS_UP, timeDown |-> U32(0),
                                  firstDown |-> U32(0)]]
              /\ sampled = held
    /\ scanning = TRUE
    /\ autoRepeat = AUTOREPEAT_OFF /\ timeoutMs = CONFIG_TIMEOUT_MS
    /\ autoRepeatPeriod = AUTOREPEAT_AFTER_MS
    /\ ret = IF pc = "cfgMIDI" THEN UP ELSE DOWN
    /\ doFlash = 1 /\ flashTicks = FLASH_PERIOD_MS
    /\ displayIntensity = MAX_DISPLAY_INTENSITY
    /\ intensityOut = MAX_DISPLAY_INTENSITY
    /\ midiChannel = 0 /\ range = 0 /\ showZeroBased = 0
    /\ midiPatchNo = 0 /\ newPatchNo = 0
    /\ locked = TRUE /\ wrote = <<>> /\ uart = <<>>
    /\ display = IF pc = "cfgMIDI" THEN <<"chan", 0, 0>> ELSE <<"flag", 1>>
    /\ InitCounters

\* Besides the bursts of the whole program, a stretch of the idle window.
IdleBursts == TickBursts \cup {CONFIG_TIMEOUT_MS}

IdleTicks ==
    /\ pc \in {"cfgMIDI", "cfgDisplay"}
    /\ nTicks < MaxIdleTicks
    /\ TicksOf(IdleBursts)

NextIdle ==
    \/ ConfigMIDIStep
    \/ ConfigDisplayStep
    \/ ScanIter
    \/ IdleTicks

SpecIdle == InitIdle /\ [][NextIdle]_vars

(***************************************************************************)
(* Switches held for more than a second in main and in mode2, with the     *)
(* scan loop running at every tick.                                        *)
(***************************************************************************)
RepeatBuilds == {b \in Builds : ~b.DONTSENDBANK /\ ~b.RESTORELASTPC}

RepeatPatches == [r \in 0..MAXRANGE |-> {0}]

InitRepeat ==
    /\ \/ Waiting("main", {0}, RepeatPatches, RepeatBuilds)
       \/ Waiting("mode2", {0}, RepeatPatches, RepeatBuilds)
    /\ range = 0

\* The thresholds that scanFS compares elapsed times with.
Thresholds ==
    {DEBOUNCE_THRESHOLD_MS, AUTOREPEAT_FAST_MS, AUTOREPEAT_AFTER_MS,
     AUTOREPEAT_FAST_AFTER}

\* The ticks from x to now, for x at most 2^16 ticks back; else -1.
Elapsed(x) ==
    IF now[1] = x[1] /\ now[2] >= x[2] THEN now[2] - x[2]
    ELSE IF now[1] = (x[1] + 1) % W16 THEN now[2] + W16 - x[2]
    ELSE -1

\* The ticks from now to the first tick at which more than k ms have elapsed
\* since x.
Due(x, k) == k + 1 - Elapsed(x)

\* The numbers of ticks after which a time kept in the array, or the start
\* of a call with a timeout, gets older than a threshold.
DueTicks ==
    {Due(y[1], y[2]) :
        y \in {z \in (({fsArr[i].timeDown : i \in 0..(MAXFS - 1)}
                        \cup {fsArr[i].firstDown : i \in 0..(MAXFS - 1)})
                       \X Thresholds)
                      \cup (IF timeoutMs > 0
                            THEN {<<startScan, timeoutMs>>} ELSE {}) :
                  Due(z[1], z[2]) \in 1..(z[2] + 1)}}

\* Those of them with no pass before the last tick that returns or changes
\* anything.
QuietDue == {d \in DueTicks : Quiet(d)}

\* One tick, or the longest of the quiet stretches.
RepeatBursts ==
    {1} \cup {d \in QuietDue : \A e \in QuietDue : e <= d}

\* The ticks while scanFS runs: a switch changes at a single tick, and with
\* the switches at rest the ticks run up to the next pass that can return or
\* change something.
RepeatTicks ==
    /\ scanning
    /\ TicksUpTo(MaxRepeatTicks, RepeatBursts)
    /\ nToggles' <= MaxRepeatToggles
    /\ IF closed' # closed THEN clock' = clock + 1
       ELSE \E d \in QuietDue : (\A e \in QuietDue : e <= d) /\ clock' = clock + d

NextRepeat ==
    \/ MainStep
    \/ Mode2Step
    \/ ScanIter
    \/ RepeatTicks

SpecRepeat == InitRepeat /\ [][NextRepeat]_vars

(***************************************************************************)
(* The tick counter passing from 2^32 - 1 to 0 while switches are held and *)
(* while a config mode waits for its timeout.                              *)
(***************************************************************************)
\* The counter 30 and 100 ms before it wraps.
WrapOrigins == {<<W16 - 1, W16 - 30>>, <<W16 - 1, W16 - 100>>}

\* The program waiting in the scanFS call of mode2 or of configMIDI with the
\* switches at rest, after 49.7 days of running.
InitWrap ==
    /\ build = MakefileBuild
    /\ sendMIDIBank = IF build.DONTSENDBANK THEN 0 ELSE 1
    /\ stuck = {}
    /\ eeprom = ZeroStore
    /\ pc \in {"mode2", "cfgMIDI"}
    /\ scanning = TRUE /\ sampled = FALSE /\ ret = NOPRESS
    /\ timeoutMs = IF pc = "cfgMIDI" THEN CONFIG_TIMEOUT_MS ELSE 0
    /\ autoRepeat = IF pc = "mode2" THEN AUTOREPEAT_ON ELSE AUTOREPEAT_OFF
    /\ autoRepeatPeriod = AUTOREPEAT_AFTER_MS
    /\ doFlash = 1 /\ flashTicks = FLASH_PERIOD_MS
    /\ displayIntensity = MAX_DISPLAY_INTENSITY
    /\ intensityOut = MAX_DISPLAY_INTENSITY
    /\ now \in WrapOrigins
    /\ startScan = now /\ nowRead = now
    /\ fsArr = [i \in 0..(MAXFS - 1) |->
                  [state |-> FS_UP, timeDown |-> U32(0), firstDown |-> U32(0)]]
    /\ closed = {}
    /\ midiChannel = 0 /\ range = 0 /\ showZeroBased = 0
    /\ midiPatchNo = 0 /\ newPatchNo = 0
    /\ locked = TRUE /\ wrote = <<>> /\ uart = <<>>
    /\ display = IF pc = "cfgMIDI" THEN <<"chan", 0, 0>> ELSE <<"patch", 1>>
    /\ InitCounters

\* The ticks of SpecRepeat, each read of now yielding the value of now.
WrapTicks ==
    /\ scanning
    /\ TicksOf(RepeatBursts)
    /\ nowRead' = now'
    /\ nToggles' <= MaxRepeatToggles
    /\ IF closed' # closed THEN clock' = clock + 1
       ELSE \E d \in QuietDue : (\A e \in QuietDue : e <= d) /\ clock' = clock + d

NextWrap ==
    \/ MainStep
    \/ Mode2Step
    \/ ConfigMIDIStep
    \/ ScanIter
    \/ WrapTicks

SpecWrap == InitWrap /\ [][NextWrap]_vars

(***************************************************************************)
(* Debounce and the two-switch MODE emulation, on the whole program.       *)
(***************************************************************************)
\* C1: no role has had an activation event returned within a closure of its
\* line that lasted less than DEBOUNCE_THRESHOLD_MS before the line opened.
C1_NoEventFromShortClosure == shortPress = {}

\* C2: a switch that is closed and has been scanned with autorepeat off only
\* since it closed has had at most one activation event returned for its role
\* since it closed.
C2_OneEventPerClosure ==
    \A r \in Switches(build) :
        (r \in closed /\ offOnly[r]) => evIn[r] <= 1

\* C3: without HAS_MODE_FS, a pass of the scan loop that read both UP and DOWN
\* closed has not returned UP or DOWN.
C3_BothClosedIsMode ==
    (~build.HAS_MODE_FS /\ lastScan.ret \in {UP, DOWN})
        => ~({UP, DOWN} \subseteq lastScan.seen)

(***************************************************************************)
(* Scroll mode, patch arithmetic, configuration and MIDI encoding.         *)
(***************************************************************************)
\* The positions of the status bytes of a sequence of MIDI bytes.
StatusBytes(u) == {i \in 1..Len(u) : u[i] >= 128}

\* The code between the last two scanFS calls was the commit of scroll mode.
Committed == last.pc = "mode2" /\ last.ev = MODE

\* C4 (as amended): in scroll mode no MIDI byte is transmitted, from entry
\* and through every adjustment; the MODE event makes one transmission for
\* the final working value: exactly one program change, and before it a bank
\* select (controller 0) for the part of the value above 127 when one is sent.
C4_ScrollCommit ==
    /\ pc = "mode2" => uart = <<>>
    /\ Committed =>
         /\ Cardinality({i \in StatusBytes(uart) : uart[i] \div 16 = 12}) = 1
         /\ \A i \in StatusBytes(uart) :
                uart[i] \div 16 = 12 \/ (uart[i] \div 16 = 11 /\ uart[i + 1] = 0)
         /\ uart[Len(uart)] + (IF Len(uart) > 2 THEN 128 * uart[3] ELSE 0)
                = last.work

\* C4 (as stated): the MODE event of scroll mode transmits exactly one MIDI
\* message.
C4_CommitOneMessage == Committed => Cardinality(StatusBytes(uart)) = 1

\* A commit of 13 after three UPs from a committed 10.
C4_Witness ==
    /\ Committed /\ pc = "main"
    /\ last.patch = 10 /\ last.work = 13 /\ range = 0
    /\ uart # <<>>

\* C5: an UP or DOWN in scroll mode leaves the committed patch as it was and
\* changes the working copy; entering scroll mode leaves it as it was; the
\* commit gives it the working value.
C5_CommittedUntouched ==
    /\ (last.pc = "mode2" /\ last.ev \in {UP, DOWN}) =>
           /\ pc = "mode2"
           /\ midiPatchNo = last.patch
           /\ newPatchNo # last.work
    /\ (last.pc = "main" /\ last.ev = MODE) =>
           /\ pc = "mode2"
           /\ midiPatchNo = last.patch
    /\ Committed => midiPatchNo = last.work

C5_Witness ==
    /\ last.pc = "mode2" /\ last.ev = DOWN /\ pc = "mode2"
    /\ nAdjust = MaxAdjust
    /\ newPatchNo # midiPatchNo

\* C6: in main and in scroll mode, UP gives (patch + 1) mod (max + 1) and
\* DOWN gives patch - 1, or max from 0, where max is the maximum of the range.
C6_PatchStep ==
    LET max == maxPatch[range]
        up(p) == (p + 1) % (max + 1)
        down(p) == IF p > 0 THEN p - 1 ELSE max
    IN  /\ (last.pc = "main" /\ last.ev = UP) => midiPatchNo = up(last.patch)
        /\ (last.pc = "main" /\ last.ev = DOWN) => midiPatchNo = down(last.patch)
        /\ (last.pc = "mode2" /\ last.ev = UP) => newPatchNo = up(last.work)
        /\ (last.pc = "mode2" /\ last.ev = DOWN) => newPatchNo = down(last.work)

C6_Witness ==
    /\ last.pc = "mode2" /\ last.ev = DOWN
    /\ last.work = 0 /\ range = MAXRANGE /\ newPatchNo = MAXRANGE_4

\* C7: in MIDI config mode the channel stays in 0..15; UP gives
\* (channel + 1) mod 16 and DOWN gives (channel - 1) mod 16.
C7_ChannelRing ==
    /\ midiChannel \in 0..15
    /\ (last.pc = "cfgMIDI" /\ last.ev = UP) =>
           midiChannel = (last.chan + 1) % 16
    /\ (last.pc = "cfgMIDI" /\ last.ev = DOWN) =>
           midiChannel = (last.chan + 15) % 16

C7_Witness ==
    /\ last.pc = "cfgMIDI" /\ last.ev = DOWN
    /\ last.chan = 0 /\ midiChannel = 15

\* C8: in MIDI config mode the range index stays in 0..4; MODE gives
\* (range + 1) mod 5; UP and DOWN leave it as it was.
C8_RangeCycle ==
    /\ range \in 0..4
    /\ (last.pc = "cfgMIDI" /\ last.ev = MODE) => range = (last.rng + 1) % 5
    /\ (last.pc = "cfgMIDI" /\ last.ev \in {UP, DOWN}) => range = last.rng

C8_Witness ==
    /\ last.pc = "cfgMIDI" /\ last.ev = MODE
    /\ last.rng = 4 /\ range = 0

C11_RoundTrip ==
    /\ (pc = "boot" /\ eeprom = ZeroStore) =>
           (midiChannel = 0 /\ range = 0 /\ showZeroBased = 0)
    /\ (Rebooted /\ stuck = {}) =>
           /\ midiChannel = last.chan
           /\ range = last.rng
           /\ showZeroBased = last.flag

\* After a session that moved the range only, from the all-zero EEPROM.
C11_Witness ==
    /\ Rebooted /\ stuck = {}
    /\ midiChannel = 0 /\ range = 3 /\ showZeroBased = 0
    /\ eeprom[RANGEOFFSET] = 3 /\ eeprom[CHANNELOFFSET] = 0

\* The writeEepromByte calls of the last step on the configuration bytes.
ConfigBytes == {CHANNELOFFSET, RANGEOFFSET, DISPLAYOFFSET}
ConfigWrites == {i \in 1..Len(wrote) : wrote[i].off \in ConfigBytes}

\* C12: a configuration byte is written only by the exit of a config mode,
\* and only if at that exit the channel, the range or the display flag in
\* memory differs from the byte stored for it; so a boot with no switch held
\* and a session that ends with every field equal to its stored byte write
\* nothing.
C12_WriteOnlyOnChange ==
    ConfigWrites # {} =>
        /\ last.pc \in {"cfgMIDI", "cfgDisplay"}
        /\ pc = "main"
        /\ \/ midiChannel # last.store[CHANNELOFFSET]
           \/ range # last.store[RANGEOFFSET]
           \/ showZeroBased # last.store[DISPLAYOFFSET]

\* A session of configMIDI that times out with nothing to store.
C12_Witness ==
    /\ last.pc = "cfgMIDI" /\ last.ev = NOPRESS /\ pc = "main"
    /\ midiChannel = eeprom[CHANNELOFFSET]
    /\ range = eeprom[RANGEOFFSET]
    /\ showZeroBased = eeprom[DISPLAYOFFSET]
    /\ wrote = <<>>

\* C13: at the exit of a config mode a configuration byte is written only if
\* the field in memory differs from it, whatever the other fields did.
C13_OnlyChangedWritten ==
    \A i \in ConfigWrites : wrote[i].val # last.store[wrote[i].off]

\* C14: whatever the three configuration bytes hold, from the load on the
\* channel is in 0..15, the range index in 0..4 and the display flag in 0..1,
\* and the range index stays an index of maxPatch.
C14_LoadInRange ==
    pc # "reset" =>
        /\ midiChannel \in 0..15
        /\ range \in 0..4
        /\ showZeroBased \in 0..1
        /\ range \in DOMAIN maxPatch

\* The load of the bytes 0xFF, 0xFE, 0xFF.
C14_Witness ==
    /\ pc = "boot" /\ last.pc = "reset"
    /\ eeprom[CHANNELOFFSET] = 255 /\ midiChannel = 15
    /\ eeprom[RANGEOFFSET] = 254 /\ range = 4
    /\ eeprom[DISPLAYOFFSET] = 255 /\ showZeroBased = 1

ProgramChanges(u) == {i \in StatusBytes(u) : u[i] \div 16 = 12}

C20_WritesBracketed ==
    /\ locked
    /\ \A i \in 1..Len(wrote) : wrote[i].open

\* The store of a configuration whose range byte did not program.
C20_Witness ==
    /\ pc = "main" /\ last.pc = "cfgMIDI"
    /\ Len(wrote) = 3
    /\ wrote[1].ok /\ ~wrote[2].ok /\ wrote[3].ok
    /\ eeprom[RANGEOFFSET] # range
    /\ locked

\* C16: in a config mode the idle window is 3000 ms from the start of the
\* scanFS call that follows the entry or the last event: the call returns
\* 0xFF only when more than 3000 ms have passed since, no pass leaves the
\* call running after that, every call starts the window afresh, and on 0xFF
\* the mode exits through the store step to main.
C16_IdleWindow ==
    /\ (pc \in {"cfgMIDI", "cfgDisplay"} /\ ~scanning /\ ret = NOPRESS) =>
           clock - scanFrom > 3000
    /\ (pc \in {"cfgMIDI", "cfgDisplay"} /\ scanning /\ sampled) =>
           clock - scanFrom <= 3000
    /\ (pc \in {"cfgMIDI", "cfgDisplay"} /\ scanning) =>
           Sub32(now, startScan) = U32(clock - scanFrom)
    /\ (last.pc \in {"cfgMIDI", "cfgDisplay"} /\ last.ev = NOPRESS) =>
           pc = "main"

\* C19: what the main context reads of the 32-bit tick counter is a value
\* that the counter holds or held one tick before: no read mixes the bytes of
\* two values.
C19_NoTornRead ==
    nowRead = now \/ Add32(nowRead, 1) = now

\* The patch held by the two bytes of the last patch in the EEPROM e.
StoredPatch(e) == e[LASTPCMSB] * 256 + e[LASTPCLSB]

\* C23: with RESTORELASTPC every transmission writes the high and the low
\* byte of the transmitted patch, and when the cells program the EEPROM then
\* holds that patch; no other step touches the two bytes, across a power
\* cycle and a configuration session; and main starts with the stored patch
\* as the committed patch, shown on the display and not transmitted.
C23_RestoreLastPatch ==
    /\ uart # <<>> =>
           /\ Len(wrote) = 2
           /\ wrote[1].off = LASTPCMSB /\ wrote[1].val = midiPatchNo \div 256
           /\ wrote[2].off = LASTPCLSB /\ wrote[2].val = midiPatchNo % 256
           /\ stuck = {} => StoredPatch(eeprom) = midiPatchNo
    /\ uart = <<>> => StoredPatch(eeprom) = StoredPatch(last.store)
    /\ (pc = "main" /\ last.pc \in {"boot", "cfgMIDI", "cfgDisplay"}) =>
           /\ midiPatchNo = StoredPatch(eeprom)
           /\ display = <<"patch", IF showZeroBased = 0 THEN midiPatchNo + 1
                                   ELSE midiPatchNo>>
           /\ uart = <<>>

\* The second run starts main with patch 998, sent at the end of the first.
C23_Witness ==
    /\ pc = "main" /\ last.pc = "boot" /\ last.boots = 1
    /\ range = 4 /\ midiPatchNo = 998
    /\ display = <<"patch", 999>> /\ uart = <<>>

\* C25: while the program waits in main or in scroll mode the committed
\* patch, and in scroll mode the working copy, is at most maxPatch[range]
\* (here with every EEPROM cell programming).
C25_PatchInRange ==
    stuck = {} =>
        /\ pc \in {"main", "mode2"} => midiPatchNo <= maxPatch[range]
        /\ pc = "mode2" => newPatchNo <= maxPatch[range]

\* C24: when the boot scan finds both foot switches closed (it returns MODE
\* in the two-switch build), the program enters a bank select config mode,
\* which is neither configMIDI nor configDisplay (nor main).
C24_BothIsBankSelect ==
    (last.pc = "boot" /\ last.ev = MODE /\ {UP, DOWN} \subseteq lastScan.seen) =>
        pc \notin {"cfgMIDI", "cfgDisplay", "main"}

\* C28: in configDisplay an UP or a DOWN event flips the display flag and
\* the mode goes on (so two events restore the flag); a MODE event or the
\* timeout leaves to main with the flag as it was; the channel and the range
\* stay as they were in all cases.
C28_DisplayToggle ==
    last.pc = "cfgDisplay" =>
        /\ showZeroBased \in 0..1
        /\ midiChannel = last.chan /\ range = last.rng
        /\ last.ev \in {UP, DOWN} =>
               (pc = "cfgDisplay" /\ showZeroBased = 1 - last.flag)
        /\ last.ev \in {MODE, NOPRESS} =>
               (pc = "main" /\ showZeroBased = last.flag)

\* A MODE event leaves configDisplay after the flag was set, and stored.
C28_Witness ==
    /\ last.pc = "cfgDisplay" /\ last.ev = MODE /\ pc = "main"
    /\ last.store[DISPLAYOFFSET] = 0
    /\ showZeroBased = 1 /\ eeprom[DISPLAYOFFSET] = 1

\* C29: a store step writes each of the three configuration bytes once, in
\* the order channel, range, flag, also when a byte does not read back as
\* written; the program then waits in main with the channel, range and flag
\* it had in memory.
C29_BestEffortStore ==
    (last.pc \in {"cfgMIDI", "cfgDisplay"} /\ wrote # <<>>) =>
        /\ [i \in 1..Len(wrote) |-> wrote[i].off]
               = <<CHANNELOFFSET, RANGEOFFSET, DISPLAYOFFSET>>
        /\ [i \in 1..Len(wrote) |-> wrote[i].val]
               = <<midiChannel, range, showZeroBased>>
        /\ pc = "main"
        /\ <<midiChannel, range, showZeroBased>>
               = <<last.chan, last.rng, last.flag>>

\* The channel byte did not program; the range and the flag were stored.
C29_Witness ==
    /\ last.pc = "cfgMIDI" /\ pc = "main"
    /\ Len(wrote) = 3 /\ ~wrote[1].ok /\ wrote[2].ok /\ wrote[3].ok
    /\ midiChannel = 5 /\ eeprom[CHANNELOFFSET] = 0
    /\ range = 2 /\ eeprom[RANGEOFFSET] = 2

\* The switches that a pass of the scan loop samples: none if the timeout
\* test returns, those up to the returned one if the loop returns, else all.
Sampled(i) ==
    /\ ~TimedOut(nowRead, startScan, timeoutMs)
    /\ scanning' \/ i <= ret'

\* C26: in a pass of a call with autorepeat off, no switch that is in state
\* FS_SENT is returned; a switch whose line a pass samples open is in state
\* FS_UP after the pass; and a switch in state FS_UP whose line a pass samples
\* closed gets timeDown and firstDown equal to the counter, and state FS_DOWN
\* (unless, in the two-switch build, the pass then finds both lines closed).
C26_PassStep ==
    (scanning /\ ~sampled) =>
        /\ (autoRepeat = AUTOREPEAT_OFF /\ ~scanning' /\ ret' # NOPRESS) =>
               (fsArr[ret'].state = FS_DOWN /\ fsArr'[ret'].state = FS_SENT)
        /\ \A i \in 0..(MAXFS - 1) :
               (Sampled(i) /\ ~LineClosed(i, closed, build)) =>
                   fsArr'[i].state = FS_UP
        /\ \A i \in 0..(MAXFS - 1) :
               (Sampled(i) /\ LineClosed(i, closed, build)
                           /\ fsArr[i].state = FS_UP) =>
                   /\ fsArr'[i].timeDown = now /\ fsArr'[i].firstDown = now
                   /\ fsArr'[i].state = FS_DOWN
                          \/ (~build.HAS_MODE_FS /\ i # MODE /\ Sampled(MODE)
                                /\ LineClosed(MODE, closed, build))

C26_ReleasedResets == [][C26_PassStep]_vars

\* UP is held, actioned, in a call with autorepeat off, more than 300 ms after
\* its event, and the call is still running.
C26_Witness ==
    /\ scanning /\ sampled /\ autoRepeat = AUTOREPEAT_OFF
    /\ UP \in closed /\ fsArr[UP].state = FS_SENT
    /\ GT32(Sub32(now, fsArr[UP].timeDown), AUTOREPEAT_AFTER_MS)

\* C30: a call without timeout never returns 0xFF; a role that a call
\* returns was sampled closed in the returning pass and is actioned; and
\* no pass leaves a call with a timeout running once the time it reads
\* since the start of the call exceeds the timeout.
C30_ScanReturns ==
    /\ (pc # "reset" /\ ~scanning /\ timeoutMs = 0) => ret # NOPRESS
    /\ (~scanning /\ ret # NOPRESS) =>
           (fsArr[ret].state = FS_SENT /\ ret \in lastScan.seen)
    /\ (scanning /\ sampled /\ timeoutMs > 0) =>
           ~GT32(Sub32(nowRead, startScan), timeoutMs)

\* The boot scan returns 0xFF at 101 ms.
C30_Witness ==
    /\ pc = "boot" /\ ~scanning /\ ret = NOPRESS
    /\ timeoutMs = 100 /\ Sub32(now, startScan) = U32(101)

\* The lines that read closed.
Held == {r \in 0..(MAXFS - 1) : LineClosed(r, closed, build)}

\* A pass returns role r as a repeat: r was actioned before the pass.
Repeats(r) ==
    /\ scanning /\ ~sampled /\ ~scanning' /\ ret' = r
    /\ fsArr[r].state = FS_SENT

\* C22: when a pass of a call with autorepeat returns the one switch that is
\* held as a repeat, more than 300 ms have passed since its previous event
\* if its press is at most 1000 ms old, and more than 60 ms and at most 300 ms
\* if its press is older.
C22_RepeatStep ==
    \A r \in 0..(MAXFS - 1) :
        (Repeats(r) /\ Held = {r}) =>
            LET since == Sub32(now, fsArr[r].timeDown)
                age == Sub32(now, fsArr[r].firstDown)
            IN  /\ autoRepeat = AUTOREPEAT_ON
                /\ ~GT32(age, AUTOREPEAT_FAST_AFTER) =>
                       GT32(since, AUTOREPEAT_AFTER_MS)
                /\ GT32(age, AUTOREPEAT_FAST_AFTER) =>
                       /\ GT32(since, AUTOREPEAT_FAST_MS)
                       /\ ~GT32(since, AUTOREPEAT_AFTER_MS)

C22_RepeatGaps == [][C22_RepeatStep]_vars

\* UP, held for 1015 ms in mode2, has its fifth event returned, 61 ms after
\* the fourth; the four before have stepped the working copy.
C22_Witness ==
    /\ pc = "mode2" /\ ~scanning /\ ret = UP /\ closed = {UP}
    /\ evIn[UP] = 5 /\ clock - closedAt[UP] = 1015
    /\ newPatchNo = 4

\* C27: when a pass returns a switch as a repeat and the press of that switch
\* is at most 1000 ms old, more than 300 ms have passed since the previous
\* event of that switch, whatever the other switches are.
C27_RepeatStep ==
    \A r \in 0..(MAXFS - 1) :
        (Repeats(r) /\ ~GT32(Sub32(now, fsArr[r].firstDown), AUTOREPEAT_FAST_AFTER))
            => GT32(Sub32(now, fsArr[r].timeDown), AUTOREPEAT_AFTER_MS)

C27_OwnPressAge == [][C27_RepeatStep]_vars

\* The number of ticks from o to x, for x less than 2^16 ticks after o.
Off(x, o) == IF x[1] = o[1] THEN x[2] - o[2] ELSE x[2] + W16 - o[2]

\* The value of the counter when the behaviour began.
Origin == CHOOSE o \in WrapOrigins : Off(now, o) = clock

\* The array with its times counted from Origin.
FromOrigin(fs) ==
    [i \in DOMAIN fs |->
        IF fs[i].state = FS_UP THEN fs[i]
        ELSE [fs[i] EXCEPT !.timeDown = U32(Off(@, Origin)),
                           !.firstDown = U32(Off(@, Origin))]]

\* C21: a pass of the scan loop now, at the next ticks at which a time gets
\* older than a threshold and at the ticks before these, run on the counter
\* and the times of the array, yields the timeout, the returned switch, the
\* switch states and the repeat period that it yields on the same times
\* counted from the start of the behaviour, where no subtraction wraps.
C21_WrapSameOutcome ==
    scanning =>
        \A d \in {0} \cup DueTicks \cup {e - 1 : e \in DueTicks} :
            LET p == ScanPass(fsArr, autoRepeatPeriod, closed, Add32(now, d),
                              autoRepeat, build)
                q == ScanPass(FromOrigin(fsArr), autoRepeatPeriod, closed,
                              U32(clock + d), autoRepeat, build)
            IN  /\ TimedOut(Add32(now, d), startScan, timeoutMs)
                      = (timeoutMs > 0 /\ clock + d - scanFrom > timeoutMs)
                /\ p.done = q.done /\ p.ret = q.ret /\ p.arp = q.arp
                /\ \A i \in 0..(MAXFS - 1) : p.fs[i].state = q.fs[i].state

\* UP, pressed before the counter wrapped, has had its fifth event after the
\* wrap, 1015 ms after it closed.
C21_Witness ==
    /\ pc = "mode2" /\ ~scanning /\ ret = UP /\ closed = {UP}
    /\ fsArr[UP].firstDown[1] = W16 - 1 /\ now[1] = 0
    /\ evIn[UP] = 5 /\ clock - closedAt[UP] = 1015

\* C31: a step in which timer interrupts run adds their number to now and
\* changes, of the variables of the program, at most flashTicks and
\* displayIntensity besides: the switch array, the configuration, the
\* committed and the working patch, the mode, doFlash, the EEPROM, its lock
\* and the bytes sent stay as they are.
C31_TickStep ==
    clock' # clock =>
        /\ now' = Add32(now, clock' - clock)
        /\ UNCHANGED <<fsArr, cfgVars, midiPatchNo, newPatchNo, pc, doFlash,
                       eeprom, locked, wrote, uart, display, sendMIDIBank>>

C31_HandlerFrame == [][C31_TickStep]_vars

\* Fifty interrupts have run in scroll mode while UP is closed and pending:
\* the countdown has gone from 150 to 100.
C31_Witness ==
    /\ pc = "mode2" /\ scanning /\ doFlash = 1
    /\ flashTicks = FLASH_PERIOD_MS - DEBOUNCE_THRESHOLD_MS
    /\ fsArr[UP].state = FS_DOWN /\ clock > DEBOUNCE_THRESHOLD_MS

\* The toggles of the intensity in d interrupts that start with the countdown
\* at n.
Toggles(n, d) == IF d <= n THEN 0 ELSE (d - n - 1) \div (FLASH_PERIOD_MS + 1) + 1

\* C32: flashTicks is at most 150 and displayIntensity is one of the two
\* levels; a step in which d interrupts run with doFlash set toggles the
\* intensity at the interrupt that finds the countdown at 0 and at every 151st
\* after it, and leaves the countdown at what is left of 150 since the last
\* toggle; with doFlash clear the interrupts leave both as they are.
C32_FlashStep ==
    /\ flashTicks \in 0..FLASH_PERIOD_MS
    /\ displayIntensity \in {MIN_DISPLAY_INTENSITY, MAX_DISPLAY_INTENSITY}
    /\ clock' # clock =>
           LET d == clock' - clock
               k == Toggles(flashTicks, d)
           IN  IF doFlash = 0
               THEN UNCHANGED <<flashTicks, displayIntensity>>
               ELSE /\ displayIntensity' =
                          IF k % 2 = 0 THEN displayIntensity
                          ELSE IF displayIntensity = MIN_DISPLAY_INTENSITY
                               THEN MAX_DISPLAY_INTENSITY
                               ELSE MIN_DISPLAY_INTENSITY
                    /\ flashTicks' =
                          IF k = 0 THEN flashTicks - d
                          ELSE FLASH_PERIOD_MS
                                 - ((d - flashTicks - 1) % (FLASH_PERIOD_MS + 1))

C32_FlashPeriod == [][C32_FlashStep]_vars

\* Scroll mode has flashed for 353 ms: the intensity, toggled at the 151st
\* and at the 302nd interrupt, is at MAX and the countdown at 99.
C32_Witness ==
    /\ pc = "mode2" /\ doFlash = 1 /\ last.pc = "mode2"
    /\ clock = 2 * (FLASH_PERIOD_MS + 1) + DEBOUNCE_THRESHOLD_MS + 1
    /\ displayIntensity = MAX_DISPLAY_INTENSITY
    /\ flashTicks = FLASH_PERIOD_MS - DEBOUNCE_THRESHOLD_MS - 1

\* C33: doFlash is set in configMIDI, configDisplay and mode2 and in no other
\* mode; in main the intensity last issued to the display is MAX.
C33_FlashFlag ==
    /\ doFlash # 0 <=> pc \in {"cfgMIDI", "cfgDisplay", "mode2"}
    /\ pc = "main" => intensityOut = MAX_DISPLAY_INTENSITY

\* configDisplay has issued MIN to the display and has returned on a MODE
\* event: main runs with MAX issued while displayIntensity is still MIN.
C33_Witness ==
    /\ pc = "main" /\ last.pc = "cfgDisplay" /\ doFlash = 0
    /\ displayIntensity = MIN_DISPLAY_INTENSITY
    /\ intensityOut = MAX_DISPLAY_INTENSITY

\* No switch but those that make the MODE line is closed.
OnlyModeHeld ==
    /\ LineClosed(MODE, closed, build)
    /\ build.HAS_MODE_FS => closed = {MODE}

\* Scroll mode has been entered by the first event of the closure of MODE
\* that still lasts, and has returned no event since.
EnteredHeld ==
    /\ pc = "mode2" /\ last.pc = "main" /\ last.ev = MODE
    /\ evIn[MODE] = 1 /\ OnlyModeHeld

\* After a pass in that situation at most 300 ms have passed since the event
\* that entered scroll mode; and when scroll mode has returned on the second
\* event of that closure with the working copy untouched, the committed
\* patch is the one before and bytes have been sent.
C34_State ==
    /\ (EnteredHeld /\ scanning /\ sampled) =>
           clock - scanFrom <= AUTOREPEAT_AFTER_MS
    /\ (/\ pc = "main" /\ last.pc = "mode2" /\ last.ev = MODE
        /\ evIn[MODE] = 2 /\ OnlyModeHeld /\ last.work = last.patch) =>
           (midiPatchNo = last.patch /\ uart # <<>>)

LeftClosed(r) ==
    /\ ~build.HAS_MODE_FS /\ scanning /\ sampled
    /\ closed = {r} /\ evIn[MODE] >= 1 /\ closedAt[r] <= closedAt[MODE]

\* The switch left closed is pending for at most 50 ms, or its event is the
\* last that a scan returned.
C35_State ==
    \A r \in {UP, DOWN} :
        LeftClosed(r) =>
            \/ /\ fsArr[r].state = FS_DOWN
               /\ ~GT32(Sub32(now, fsArr[r].timeDown), DEBOUNCE_THRESHOLD_MS)
            \/ /\ fsArr[r].state = FS_SENT
               /\ evIn[r] >= 1 /\ lastScan.ret = r

C36_Step ==
    /\ ~(scanning /\ ~sampled) => fsArr' = fsArr
    /\ \A i \in 0..(MAXFS - 1) :
           (/\ scanning /\ ~sampled
            /\ Sampled(i) /\ LineClosed(i, closed, build)
            /\ fsArr[i].state = FS_DOWN
            /\ Elapsed(fsArr[i].timeDown) > DEBOUNCE_THRESHOLD_MS) =>
               (~scanning' /\ ret' = i /\ fsArr'[i].state = FS_SENT)

Loaded ==
    /\ midiChannel = AndBits(eeprom[CHANNELOFFSET], 15)
    /\ range = eeprom[RANGEOFFSET] % (MAXRANGE + 1)
    /\ showZeroBased = AndBits(eeprom[DISPLAYOFFSET], 1)

\* No switch has been pressed since power-up: every line that is closed has
\* been closed from the start.
NoFreshPress == \A r \in Switches(build) : closedAt[r] = 0

\* C37: in a config mode channel, range and display flag keep the values
\* loaded at power-up as long as no switch has been pressed anew since
\* power-up; the switches held at power-up cause no change of their own.
C37_HeldKeepsLoaded ==
    (pc \in {"cfgMIDI", "cfgDisplay"} /\ NoFreshPress) => Loaded

\* C37, with the lines as they were at power-up: no event and no change.
C37_UntouchedKeepsLoaded ==
    (pc \in {"cfgMIDI", "cfgDisplay"} /\ nToggles = 0) =>
        (Loaded /\ \A r \in Roles : evIn[r] <= 1)

C38_Step ==
    /\ pc \in {"main", "mode2"} =>
           (pc' \in {"main", "mode2"} /\ UNCHANGED cfgVars)
    /\ pc' \in {"cfgMIDI", "cfgDisplay"} => pc \in {"boot", pc'}
    /\ pc = "cfgMIDI" => showZeroBased' = showZeroBased
    /\ pc = "cfgDisplay" => (midiChannel' = midiChannel /\ range' = range)

\* C38: a step taken in main or in scroll mode stays in main or scroll mode
\* and leaves channel, range and display flag unchanged; a config mode is
\* entered only from the boot check; a step taken in configMIDI leaves the
\* display flag unchanged and a step taken in configDisplay leaves channel
\* and range unchanged.
C38_ConfigOnlyAtBoot == [][C38_Step]_vars

\* An event of main has entered scroll mode, from a main reached through the
\* boot check, with the configuration as it was loaded.
C38_Witness ==
    /\ pc = "mode2" /\ last.pc = "main" /\ last.ev = MODE
    /\ doFlash = 1 /\ Loaded
    /\ midiChannel = last.chan /\ range = last.rng /\ showZeroBased = last.flag

\* A byte sequence made of control-change messages (status 0xB0 | channel,
\* controller, value) and program-change messages (status 0xC0 | channel,
\* program) with channel in 0..15 and every data byte in 0..127.
RECURSIVE WellFormed(_)
WellFormed(u) ==
    \/ u = <<>>
    \/ /\ Len(u) >= 3
       /\ u[1] \in {OrBits(MIDI_CC, ch) : ch \in 0..15}
       /\ u[2] = 0 /\ u[3] \in 0..127
       /\ WellFormed(SubSeq(u, 4, Len(u)))
    \/ /\ Len(u) >= 2
       /\ u[1] \in {OrBits(MIDI_PC, ch) : ch \in 0..15}
       /\ u[2] \in 0..127
       /\ WellFormed(SubSeq(u, 3, Len(u)))

\* C39: the bytes handed to the UART are a sequence of well-formed messages:
\* each status byte is 0xB0 | channel or 0xC0 | channel with channel in 0..15,
\* and each data byte (controller 0, bank, program) is in 0..127.
C39_WellFormedBytes == WellFormed(uart)

====
